---- MODULE Spec2Model ----
(***************************************************************************)
(* Call session coordination of the video-conference client                *)
(* (src/backend/static/video-call.js, class VideoCallManager).             *)
(*                                                                         *)
(* Each client runs one VideoCallManager.  Its fields are the variables    *)
(* below, indexed by client.  RTCPeerConnection and WebSocket objects live *)
(* in two pools (pcs, sockets); an object that is no longer referenced by  *)
(* the manager stays in its pool, so that leaks and late callbacks can be  *)
(* observed.  Every action is one browser task: an event handler together  *)
(* with the promise continuations that run before the task ends.           *)
(***************************************************************************)
EXTENDS Integers, Sequences, FiniteSets, TLC

\* ------------------------------------------------------------------ bounds
MaxPc == 3          \* RTCPeerConnection objects created in one run
MaxSock == 6        \* WebSocket objects created in one run
MaxEnv == 2         \* frames the signaling hub originates in one run
MaxCand == 1        \* candidates one transport gathers
MaxToggle == 2      \* calls of toggleMute in one run
MaxShare == 2       \* calls of getDisplayMedia in one run

\* ------------------------------------------------------- program constants
maxReconnectAttempts == 5
reconnectDelay == 1000

Clients == {"A", "B"}
Peers == {"A", "B", "C"}
Undefined == "undefined"        \* what a handler reads from a field the frame lacks
Users == Peers \cup {Undefined}   \* keys a registry can hold
PcIds == 1..MaxPc
SockIds == 1..MaxSock

\* --------------------------------------------------------------- variables
VARIABLES
    localStream,        \* "none" | "live" | "stopped"
    remoteStreams,      \* set of user ids (keys of the Map)
    peerConnections,    \* user id -> transport id, 0 when the Map has no entry
    socket,             \* this.socket: socket id, 0 when null
    reconnectAttempts,
    heartbeatInterval,  \* TRUE when this.heartbeatInterval holds a handle
    participants,       \* user id -> participant record, NoParticipant when absent
    initPc,             \* position inside initializeCall
    pcs,                \* pool of RTCPeerConnection objects
    nextPc,
    sockets,            \* pool of WebSocket objects
    nextSock,
    hbTimers,           \* number of live setInterval timers of startHeartbeat
    reconnectTimers,    \* pending setTimeout callbacks of attemptReconnect (their delays)
    errors,             \* how often showError was called, per kind of error
    page,               \* "live" | "navigating" | "unloaded"
    inbox,              \* frames the hub has sent on the client's socket, not yet delivered
    out,                \* frames the last task put on a socket
    room,               \* clients whose frames the hub relays to each other
    platform,           \* behaviour of setRemoteDescription(offer) in have-local-offer
    envCount,           \* frames the hub has originated so far
    leftAt,             \* history: position of initializeCall at the first leaveCall, "no" before
    sinceOpen,          \* history: attemptReconnect calls since the socket last opened
    early,              \* history: candidates that arrived before a remote description
    handled,            \* history: the frame the last task took from a socket
    departed,           \* history: per client, the ids whose user_left was handled and
                        \* that no later frame has named
    media               \* isMuted, isScreenSharing and the state of the local tracks

vars == <<localStream, remoteStreams, peerConnections, socket, reconnectAttempts,
          heartbeatInterval, participants, initPc, pcs, nextPc, sockets, nextSock,
          hbTimers, reconnectTimers, errors, page, inbox, out, room, platform,
          envCount, leftAt, sinceOpen, early, handled, departed, media>>

\* ----------------------------------------------------------------- values
NoDesc == [kind |-> "none", from |-> 0, re |-> 0]
Offer(t) == [kind |-> "offer", from |-> t, re |-> 0]
Answer(t, o) == [kind |-> "answer", from |-> t, re |-> o]
Candidate(t, n) == [kind |-> "candidate", from |-> t, re |-> n]

NoParticipant ==
    [isLocal |-> FALSE, isMuted |-> FALSE, isVideoEnabled |-> FALSE,
     connectionState |-> "absent"]

FreePc ==
    [owner |-> "", peer |-> "", origin |-> "free", closed |-> FALSE, tracks |-> FALSE,
     video |-> "none", cut |-> FALSE,
     sig |-> "stable", localDesc |-> NoDesc, remoteDesc |-> NoDesc, conn |-> "new",
     candidates |-> <<>>, gathered |-> 0, trackFired |-> FALSE, chain |-> <<>>,
     dropped |-> 0]

FreeSock == [owner |-> "", state |-> "FREE", awaiter |-> "", settled |-> FALSE, code |-> 0]

NoErrors ==
    [joinFailed |-> 0, connLost |-> 0, peerFailed |-> 0, server |-> 0, share |-> 0,
     \* exceptions of WebSocket.send that no handler catches
     uncaught |-> 0]

NoMedia ==
    [audioEnabled |-> TRUE, isMuted |-> FALSE, isScreenSharing |-> FALSE,
     pendingDisplay |-> 0, screenTracks |-> 0, shares |-> 0, toggles |-> 0,
     restored |-> 0,
     connectionQuality |-> "good",
     \* history: now - lastHeartbeat at the last checkConnectionQuality, -1 before it
     sinceHeartbeat |-> -1,
     \* the constraints last applied to the camera track
     videoConstraints |-> "initial",
     \* Date.now() of the client in ms, counted from the construction
     now |-> 0,
     lastHeartbeat |-> 0,
     \* when the interval timer of startHeartbeat fires next
     hbDue |-> 0,
     \* history: callbacks of the heartbeat so far, and whether the last ping
     \* is still without its pong
     ticks |-> 0, pingPending |-> FALSE]

Keys(c) == {u \in Users : participants[c][u] # NoParticipant}
Sessions(c) == {u \in Users : peerConnections[c][u] # 0}

\* ----------------------------------------------------------------- frames
Frame(type) ==
    [type |-> type, user_id |-> "", signal_type |-> "", data |-> NoDesc,
     sender_user_id |-> "", target_user_id |-> "", participants |-> <<>>,
     action |-> "", lacks |-> {}]

NoFrame == Frame("")

UserInfo(c) == [Frame("user_info") EXCEPT !.user_id = c]
GetParticipants == Frame("get_participants")
Ping == Frame("ping")
UserJoined(u) == [Frame("user_joined") EXCEPT !.user_id = u]
UserLeft(u) == [Frame("user_left") EXCEPT !.user_id = u]
ParticipantsList(l) == [Frame("participants_list") EXCEPT !.participants = l]
UserAction(u, action) == [Frame("user_action") EXCEPT !.user_id = u, !.action = action]

\* sendWebRTCSignal builds the envelope; the receiver reads the same fields
WebRTCSignal(signalType, data, targetUserId, userId) ==
    [Frame("webrtc_signal") EXCEPT !.signal_type = signalType, !.data = data,
                                   !.target_user_id = targetUserId,
                                   !.sender_user_id = userId]

Live(c) == page[c] # "unloaded"

\* sendMessage: the frame goes out on this.socket when that socket is OPEN, and
\* is dropped otherwise.  sock and socks are this.socket and the socket pool at
\* the moment of the call.
sendMessage(sock, socks, m) ==
    IF sock # 0 /\ socks[sock].state = "OPEN" THEN <<[sock |-> sock, msg |-> m]>> ELSE <<>>

HasOpenSocket(c) == \E s \in SockIds : sockets[s].owner = c /\ sockets[s].state = "OPEN"

\* The hub forwards a webrtc_signal to its target when both ends are in the
\* room and the target is connected; every other frame ends at the hub.
RECURSIVE Relay(_, _)
Relay(inb, frames) ==
    IF frames = <<>> THEN inb
    ELSE LET m == Head(frames).msg
             to == m.target_user_id
             owner == sockets[Head(frames).sock].owner
             next == IF /\ m.type = "webrtc_signal"
                        /\ to \in room /\ owner \in room /\ to # owner
                        /\ HasOpenSocket(to)
                     THEN [inb EXCEPT ![to] = Append(@, m)]
                     ELSE inb
         IN Relay(next, Tail(frames))

\* history: the departed ids once frame m has been handled
DepartedAfter(d, m) ==
    CASE m.type = "user_left" -> d \cup {m.user_id}
      [] m.type = "user_joined" -> d \ {m.user_id}
      [] m.type = "participants_list" ->
            d \ {m.participants[i] : i \in 1..Len(m.participants)}
      [] m.type = "webrtc_signal" /\ m.signal_type = "offer" -> d \ {m.sender_user_id}
      [] OTHER -> d

\* What a task leaves behind on the wire: out holds the frames it sent, and
\* the hub has put the relayed ones into the inboxes.  inb is the inbox value
\* the task itself produced (a delivery consumes the head).
Emit(frames, inb) ==
    /\ out' = frames
    /\ inbox' = Relay(inb, frames)
    /\ handled' = IF inb = inbox THEN NoFrame
                  ELSE Head(inbox[CHOOSE c \in Clients : inb[c] # inbox[c]])
    /\ departed' = IF inb = inbox THEN departed
                   ELSE LET c == CHOOSE c \in Clients : inb[c] # inbox[c]
                        IN [departed EXCEPT ![c] = DepartedAfter(@, Head(inbox[c]))]

\* ------------------------------------------------- joining: initializeCall
addParticipant(parts, userId, isLocal) ==
    [parts EXCEPT ![userId] =
        [isLocal |-> isLocal, isMuted |-> FALSE, isVideoEnabled |-> TRUE,
         connectionState |-> "connecting"]]

\* connectWebSocket up to the return of the promise: new WebSocket(wsUrl)
\* becomes this.socket; awaiter is the coroutine that awaits the promise.
connectWebSocket(c, awaiter) ==
    /\ nextSock <= MaxSock
    /\ sockets' = [sockets EXCEPT ![nextSock] =
                      [owner |-> c, state |-> "CONNECTING", awaiter |-> awaiter,
                       settled |-> FALSE, code |-> 0]]
    /\ socket' = [socket EXCEPT ![c] = nextSock]
    /\ nextSock' = nextSock + 1

\* DOMContentLoaded: the manager is constructed and initializeCall runs up to
\* its first await (initializeMedia).
InitializeCall(c) ==
    /\ Live(c) /\ initPc[c] = "idle"
    /\ initPc' = [initPc EXCEPT ![c] = "awaitMedia"]
    /\ Emit(<<>>, inbox)
    /\ UNCHANGED <<localStream, remoteStreams, peerConnections, socket, reconnectAttempts,
                   heartbeatInterval, participants, pcs, nextPc, sockets, nextSock,
                   hbTimers, reconnectTimers, errors, page, room, platform, envCount,
                   leftAt, sinceOpen, early, media>>

\* initializeMedia resolves: the stream is stored, the local participant is
\* registered and connectWebSocket is called; initializeCall awaits its promise.
MediaResolved(c) ==
    /\ Live(c) /\ initPc[c] = "awaitMedia"
    /\ localStream' = [localStream EXCEPT ![c] = "live"]
    /\ participants' = [participants EXCEPT ![c] = addParticipant(@, c, TRUE)]
    /\ connectWebSocket(c, "init")
    /\ initPc' = [initPc EXCEPT ![c] = "awaitSocket"]
    /\ Emit(<<>>, inbox)
    /\ UNCHANGED <<remoteStreams, peerConnections, reconnectAttempts, heartbeatInterval,
                   pcs, nextPc, hbTimers, reconnectTimers, errors, page, room, platform,
                   envCount, leftAt, sinceOpen, early, media>>

\* initializeCall going on after a failure of initializeMedia
MediaRejectedStillJoins(c) ==
    /\ Live(c) /\ initPc[c] = "awaitMedia"
    /\ errors' = [errors EXCEPT ![c].joinFailed = @ + 1]
    /\ participants' = [participants EXCEPT ![c] = addParticipant(@, c, TRUE)]
    /\ connectWebSocket(c, "init")
    /\ initPc' = [initPc EXCEPT ![c] = "awaitSocket"]
    /\ Emit(<<>>, inbox)
    /\ UNCHANGED <<localStream, remoteStreams, peerConnections, reconnectAttempts,
                   heartbeatInterval, pcs, nextPc, hbTimers, reconnectTimers, page, room,
                   platform, envCount, leftAt, sinceOpen, early, media>>

\* initializeMedia throws (both getUserMedia attempts failed): the catch of
\* initializeCall shows the join error.
MediaRejected(c) ==
    /\ Live(c) /\ initPc[c] = "awaitMedia"
    /\ errors' = [errors EXCEPT ![c].joinFailed = @ + 1]
    /\ initPc' = [initPc EXCEPT ![c] = "failed"]
    /\ Emit(<<>>, inbox)
    /\ UNCHANGED <<localStream, remoteStreams, peerConnections, socket, reconnectAttempts,
                   heartbeatInterval, participants, pcs, nextPc, sockets, nextSock,
                   hbTimers, reconnectTimers, page, room, platform, envCount,
                   leftAt, sinceOpen, early, media>>

\* ------------------------------------------------------ signaling channel
RECURSIVE Pow2(_)
Pow2(n) == IF n <= 0 THEN 1 ELSE 2 * Pow2(n - 1)

\* attemptReconnect: the delay, computed after the increment of the counter
BackoffDelayFromTwo(attempts) == reconnectDelay * Pow2(attempts)

BackoffDelay(attempts) == reconnectDelay * Pow2(attempts - 1)

\* onclose that still calls attemptReconnect when the counter is at the maximum
ShouldReconnectAtMax(attempts) == attempts <= maxReconnectAttempts

\* socket.onclose: whether it calls attemptReconnect
ShouldReconnect(attempts) == attempts < maxReconnectAttempts

\* the catch of the timer callback of attemptReconnect: whether it shows the error
CatchShowsLost(attempts) == attempts >= maxReconnectAttempts

\* socket.onopen: the handshake, user_info and then get_participants, both
\* through sendMessage
HandshakeReversed(c, sock, socks) ==
    sendMessage(sock, socks, GetParticipants) \o sendMessage(sock, socks, UserInfo(c))

Handshake(c, sock, socks) ==
    sendMessage(sock, socks, UserInfo(c)) \o sendMessage(sock, socks, GetParticipants)

\* socket.onopen of socket s
SocketOpen(c, s) ==
    /\ Live(c) /\ sockets[s].owner = c /\ sockets[s].state = "CONNECTING"
    /\ sockets' = [sockets EXCEPT ![s].state = "OPEN", ![s].settled = TRUE]
    /\ reconnectAttempts' = [reconnectAttempts EXCEPT ![c] = 0]
    /\ sinceOpen' = [sinceOpen EXCEPT ![c] = 0]
    \* startHeartbeat
    /\ hbTimers' = [hbTimers EXCEPT ![c] = @ + 1]
    /\ heartbeatInterval' = [heartbeatInterval EXCEPT ![c] = TRUE]
    /\ Emit(Handshake(c, socket[c], sockets'), inbox)
    \* resolve(): initializeCall continues after its await
    /\ initPc' = [initPc EXCEPT ![c] =
                     IF sockets[s].awaiter = "init" /\ @ = "awaitSocket" THEN "done" ELSE @]
    /\ media' = [media EXCEPT ![c].hbDue = media[c].now + 30000]
    /\ UNCHANGED <<localStream, remoteStreams, peerConnections, socket, participants,
                   pcs, nextPc, nextSock, reconnectTimers, errors, page, room, platform,
                   envCount, leftAt, early>>

\* Socket s reaches CLOSED: the connection could not be established, it was
\* lost, or the closing handshake of close() has ended.  A socket that never
\* opened fires error and then close; the rejection reaches the catch of the
\* awaiting coroutine before onclose runs.
SocketEnds(c, s) ==
    LET sk == sockets[s]
        rejected == ~sk.settled
        joinFailed == rejected /\ sk.awaiter = "init"
        lostInCatch == rejected /\ sk.awaiter = "reconnect"
                          /\ CatchShowsLost(reconnectAttempts[c])
        retry == ShouldReconnect(reconnectAttempts[c])
    IN
    /\ Live(c) /\ sk.owner = c /\ sk.state \in {"CONNECTING", "OPEN", "CLOSING"}
    /\ sockets' = [sockets EXCEPT ![s].state = "CLOSED", ![s].settled = TRUE]
    /\ initPc' = [initPc EXCEPT ![c] = IF joinFailed THEN "failed" ELSE @]
    \* onclose: stopHeartbeat
    /\ hbTimers' = [hbTimers EXCEPT ![c] = IF heartbeatInterval[c] THEN @ - 1 ELSE @]
    /\ heartbeatInterval' = [heartbeatInterval EXCEPT ![c] = FALSE]
    \* onclose: attemptReconnect or the terminal error
    /\ reconnectAttempts' = [reconnectAttempts EXCEPT ![c] = IF retry THEN @ + 1 ELSE @]
    /\ sinceOpen' = [sinceOpen EXCEPT ![c] = IF retry THEN @ + 1 ELSE @]
    /\ reconnectTimers' = [reconnectTimers EXCEPT ![c] =
                              IF retry THEN Append(@, BackoffDelay(reconnectAttempts[c] + 1))
                              ELSE @]
    /\ errors' = [errors EXCEPT
                     ![c].joinFailed = @ + (IF joinFailed THEN 1 ELSE 0),
                     ![c].connLost = @ + (IF lostInCatch THEN 1 ELSE 0)
                                       + (IF retry THEN 0 ELSE 1)]
    \* frames still in flight on the socket are gone
    /\ out' = <<>>
    /\ inbox' = [inbox EXCEPT ![c] = <<>>]
    /\ handled' = NoFrame
    /\ departed' = departed
    /\ UNCHANGED <<localStream, remoteStreams, peerConnections, socket, participants,
                   pcs, nextPc, nextSock, page, room, platform, envCount, leftAt, early, media>>

\* The callback of attemptReconnect as the callback of an interval: it
\* connects and stays pending
TimerFiresStaysPending(c, i) ==
    /\ Live(c) /\ i \in 1..Len(reconnectTimers[c])
    /\ connectWebSocket(c, "reconnect")
    /\ Emit(<<>>, inbox)
    /\ UNCHANGED <<localStream, remoteStreams, peerConnections, reconnectAttempts,
                   heartbeatInterval, participants, initPc, pcs, nextPc, hbTimers,
                   reconnectTimers, errors, page, room, platform, envCount, leftAt,
                   sinceOpen, early, media>>

\* The setTimeout callback of attemptReconnect: connectWebSocket again
TimerFires(c, i) ==
    /\ Live(c) /\ i \in 1..Len(reconnectTimers[c])
    /\ reconnectTimers' = [reconnectTimers EXCEPT ![c] =
                              SubSeq(@, 1, i - 1) \o SubSeq(@, i + 1, Len(@))]
    /\ connectWebSocket(c, "reconnect")
    /\ Emit(<<>>, inbox)
    /\ UNCHANGED <<localStream, remoteStreams, peerConnections, reconnectAttempts,
                   heartbeatInterval, participants, initPc, pcs, nextPc, hbTimers,
                   errors, page, room, platform, envCount, leftAt, sinceOpen, early, media>>

\* The setInterval callback of startHeartbeat
HeartbeatTick(c) ==
    /\ Live(c) /\ hbTimers[c] > 0
    /\ Emit(sendMessage(socket[c], sockets, Ping), inbox)
    /\ UNCHANGED <<localStream, remoteStreams, peerConnections, socket, reconnectAttempts,
                   heartbeatInterval, participants, initPc, pcs, nextPc, sockets, nextSock,
                   hbTimers, reconnectTimers, errors, page, room, platform, envCount,
                   leftAt, sinceOpen, early, media>>

\* ------------------------------------------------------------- transports
Op(op, data) == [op |-> op, data |-> data]

\* RTCPeerConnection.close(): no further event, pending operations never settle
ClosePcStillSettles(p) == [p EXCEPT !.conn = "closed"]

ClosePc(p) ==
    [p EXCEPT !.closed = TRUE, !.sig = "closed", !.conn = "closed", !.chain = <<>>,
              !.cut = (@ \/ p.chain # <<>>)]

\* The handlers below thread the coordinator state they change through a
\* record st = [parts, pcs, reg, next]: the participant registry, the transport
\* pool, the session registry and the next free transport id.
CoordState(c) ==
    [parts |-> participants[c], pcs |-> pcs, reg |-> peerConnections[c], next |-> nextPc]

\* createPeerConnection up to its first await: a new transport with the local
\* tracks and the outbound handlers is stored under userId (whatever was
\* stored there before is overwritten, not closed) and createOffer is called.
createPeerConnection(st, c, userId) ==
    [st EXCEPT
        !.pcs = [@ EXCEPT ![st.next] =
                    [FreePc EXCEPT !.owner = c, !.peer = userId, !.origin = "out",
                                   !.tracks = (localStream[c] # "none"),
                                   !.video = IF localStream[c] # "none" THEN "camera"
                                             ELSE "none",
                                   !.chain = <<Op("createOffer", NoDesc)>>]],
        !.reg = [@ EXCEPT ![userId] = st.next],
        !.next = @ + 1]

\* setupPeerConnection, called by handleOffer for a sender without a session:
\* local tracks and the inbound handlers
setupPeerConnection(st, c, userId) ==
    [st EXCEPT
        !.pcs = [@ EXCEPT ![st.next] =
                    [FreePc EXCEPT !.owner = c, !.peer = userId, !.origin = "in",
                                   !.tracks = (localStream[c] # "none"),
                                   !.video = IF localStream[c] # "none" THEN "camera"
                                             ELSE "none"]],
        !.reg = [@ EXCEPT ![userId] = st.next],
        !.next = @ + 1]

handleUserJoined(st, c, user_id) ==
    IF user_id # c
    THEN createPeerConnection([st EXCEPT !.parts = addParticipant(@, user_id, FALSE)], c, user_id)
    ELSE st

RECURSIVE handleParticipantsList(_, _, _)
handleParticipantsList(st, c, list) ==
    IF list = <<>> THEN st
    ELSE LET user_id == Head(list)
             st1 == IF user_id # c
                    THEN createPeerConnection(
                             [st EXCEPT !.parts = addParticipant(@, user_id, FALSE)], c, user_id)
                    ELSE st
         IN handleParticipantsList(st1, c, Tail(list))

\* closePeerConnection
closePeerConnection(st, userId) ==
    IF st.reg[userId] # 0
    THEN [st EXCEPT !.pcs = [@ EXCEPT ![st.reg[userId]] = ClosePc(@)],
                    !.reg = [@ EXCEPT ![userId] = 0]]
    ELSE st

\* handleUserLeft: removeParticipant, then closePeerConnection
handleUserLeftKeepsParticipant(st, user_id) == closePeerConnection(st, user_id)

handleUserLeft(st, user_id) ==
    closePeerConnection([st EXCEPT !.parts = [@ EXCEPT ![user_id] = NoParticipant]], user_id)

\* handleOffer up to its first await (setRemoteDescription)
handleOffer(st, c, offer, userId) ==
    LET st1 == IF st.reg[userId] = 0 THEN setupPeerConnection(st, c, userId) ELSE st
    IN [st1 EXCEPT !.pcs = [@ EXCEPT ![st1.reg[userId]].chain =
                                 Append(@, Op("setRemoteOffer", offer))]]

\* handleAnswer up to its await
handleAnswer(st, answer, userId) ==
    IF st.reg[userId] # 0
    THEN [st EXCEPT !.pcs = [@ EXCEPT ![st.reg[userId]].chain =
                                 Append(@, Op("setRemoteAnswer", answer))]]
    ELSE st

\* handleIceCandidate up to its await
handleIceCandidate(st, candidate, userId) ==
    IF st.reg[userId] # 0
    THEN [st EXCEPT !.pcs = [@ EXCEPT ![st.reg[userId]].chain =
                                 Append(@, Op("addIceCandidate", candidate))]]
    ELSE st

\* reconnectPeerConnection up to the first await of createPeerConnection
reconnectPeerConnection(st, c, userId) ==
    createPeerConnection(closePeerConnection(st, userId), c, userId)

\* updateParticipantConnectionStatus
updateParticipantConnectionStatus(parts, userId, state) ==
    IF parts[userId] # NoParticipant
    THEN [parts EXCEPT ![userId].connectionState = state]
    ELSE parts

\* history: a session that is closed, removed or replaced takes the record of
\* its early candidates with it
EarlyAfter(c, reg) ==
    [u \in Users |->
        IF peerConnections[c][u] # 0 /\ reg[u] # peerConnections[c][u] THEN <<>>
        ELSE early[c][u]]

\* The coordinator state after a handler: st is what the handler returned
Becomes(c, st) ==
    /\ st.next <= MaxPc + 1
    /\ participants' = [participants EXCEPT ![c] = st.parts]
    /\ pcs' = st.pcs
    /\ peerConnections' = [peerConnections EXCEPT ![c] = st.reg]
    /\ nextPc' = st.next

\* socket.onmessage fires for the head of the inbox
Delivers(c, type, signal_type) ==
    /\ Live(c) /\ HasOpenSocket(c) /\ inbox[c] # <<>>
    /\ Head(inbox[c]).type = type
    /\ Head(inbox[c]).signal_type = signal_type

ReceiveUserJoined(c) ==
    /\ Delivers(c, "user_joined", "")
    /\ LET st == handleUserJoined(CoordState(c), c, Head(inbox[c]).user_id)
       IN /\ Becomes(c, st)
          /\ early' = [early EXCEPT ![c] = EarlyAfter(c, st.reg)]
    /\ Emit(<<>>, [inbox EXCEPT ![c] = Tail(@)])
    /\ UNCHANGED <<localStream, remoteStreams, socket, reconnectAttempts, heartbeatInterval,
                   initPc, sockets, nextSock, hbTimers, reconnectTimers, errors, page,
                   room, platform, envCount, leftAt, sinceOpen, media>>

ReceiveUserLeft(c) ==
    /\ Delivers(c, "user_left", "")
    /\ LET st == handleUserLeft(CoordState(c), Head(inbox[c]).user_id)
       IN /\ Becomes(c, st)
          /\ early' = [early EXCEPT ![c] = EarlyAfter(c, st.reg)]
    /\ remoteStreams' = [remoteStreams EXCEPT ![c] = @ \ {Head(inbox[c]).user_id}]
    /\ Emit(<<>>, [inbox EXCEPT ![c] = Tail(@)])
    /\ UNCHANGED <<localStream, socket, reconnectAttempts, heartbeatInterval,
                   initPc, sockets, nextSock, hbTimers, reconnectTimers, errors, page,
                   room, platform, envCount, leftAt, sinceOpen, media>>

\* socket.onmessage: whether the handling of frame m throws into the catch
\* before it has changed anything (JSON.parse of a text that is not JSON,
\* forEach of a participants field that is not there)
Throws(m) == "json" \in m.lacks \/ (m.type = "participants_list" /\ "participants" \in m.lacks)

ReceiveParticipantsList(c) ==
    /\ Delivers(c, "participants_list", "")
    /\ LET st == IF Throws(Head(inbox[c])) THEN CoordState(c)
                 ELSE handleParticipantsList(CoordState(c), c, Head(inbox[c]).participants)
       IN /\ Becomes(c, st)
          /\ early' = [early EXCEPT ![c] = EarlyAfter(c, st.reg)]
    /\ Emit(<<>>, [inbox EXCEPT ![c] = Tail(@)])
    /\ UNCHANGED <<localStream, remoteStreams, socket, reconnectAttempts, heartbeatInterval,
                   initPc, sockets, nextSock, hbTimers, reconnectTimers, errors, page,
                   room, platform, envCount, leftAt, sinceOpen, media>>

\* socket.onmessage for a text that JSON.parse rejects: the catch logs it
ReceiveUnparseable(c) ==
    /\ Delivers(c, "", "") /\ Throws(Head(inbox[c]))
    /\ Emit(<<>>, [inbox EXCEPT ![c] = Tail(@)])
    /\ UNCHANGED <<localStream, remoteStreams, peerConnections, socket, reconnectAttempts,
                   heartbeatInterval, participants, initPc, pcs, nextPc, sockets, nextSock,
                   hbTimers, reconnectTimers, errors, page, room, platform, envCount,
                   leftAt, sinceOpen, early, media>>

\* handleWebRTCSignal: whether the frame is one of the local user, to be dropped
NeverOwnSignal(c, m) == FALSE

IsOwnSignal(c, m) == m.sender_user_id = c

\* handleWebRTCSignal: a frame of the local user is dropped, the others are
\* dispatched on signal_type
ReceiveOffer(c) ==
    /\ Delivers(c, "webrtc_signal", "offer")
    /\ LET m == Head(inbox[c])
           st == IF IsOwnSignal(c, m) THEN CoordState(c)
                 ELSE handleOffer(CoordState(c), c, m.data, m.sender_user_id)
       IN Becomes(c, st)
    /\ Emit(<<>>, [inbox EXCEPT ![c] = Tail(@)])
    /\ UNCHANGED <<localStream, remoteStreams, socket, reconnectAttempts, heartbeatInterval,
                   initPc, sockets, nextSock, hbTimers, reconnectTimers, errors, page,
                   room, platform, envCount, leftAt, sinceOpen, early, media>>

ReceiveAnswer(c) ==
    /\ Delivers(c, "webrtc_signal", "answer")
    /\ LET m == Head(inbox[c])
           st == IF IsOwnSignal(c, m) THEN CoordState(c)
                 ELSE handleAnswer(CoordState(c), m.data, m.sender_user_id)
       IN Becomes(c, st)
    /\ Emit(<<>>, [inbox EXCEPT ![c] = Tail(@)])
    /\ UNCHANGED <<localStream, remoteStreams, socket, reconnectAttempts, heartbeatInterval,
                   initPc, sockets, nextSock, hbTimers, reconnectTimers, errors, page,
                   room, platform, envCount, leftAt, sinceOpen, early, media>>

ReceiveIceCandidate(c) ==
    /\ Delivers(c, "webrtc_signal", "ice_candidate")
    /\ LET m == Head(inbox[c])
           u == m.sender_user_id
           t == peerConnections[c][u]
           st == IF IsOwnSignal(c, m) THEN CoordState(c)
                 ELSE handleIceCandidate(CoordState(c), m.data, u)
       IN /\ Becomes(c, st)
          /\ early' = [early EXCEPT ![c][u] =
                          IF ~IsOwnSignal(c, m) /\ (t = 0 \/ pcs[t].remoteDesc = NoDesc)
                          THEN Append(@, m.data) ELSE @]
    /\ Emit(<<>>, [inbox EXCEPT ![c] = Tail(@)])
    /\ UNCHANGED <<localStream, remoteStreams, socket, reconnectAttempts, heartbeatInterval,
                   initPc, sockets, nextSock, hbTimers, reconnectTimers, errors, page,
                   room, platform, envCount, leftAt, sinceOpen, media>>

\* The operations of RTCPeerConnection, as the signaling state machine of the
\* transport decides them.  ok is whether the promise resolves; a rejected
\* operation leaves the transport as it was.  rollback is the platform's
\* answer to a remote offer in have-local-offer: roll the local offer back
\* and apply the remote one, or reject.
ApplyOp(p, t, op, rollback) ==
    CASE op.op = "createOffer" ->
            [ok |-> p.sig \in {"stable", "have-local-offer"}, pc |-> p]
      [] op.op = "setLocalOffer" ->
            IF p.sig \in {"stable", "have-local-offer"}
            THEN [ok |-> TRUE,
                  pc |-> [p EXCEPT !.localDesc = Offer(t), !.sig = "have-local-offer"]]
            ELSE [ok |-> FALSE, pc |-> p]
      [] op.op = "setRemoteOffer" ->
            IF p.sig \in {"stable", "have-remote-offer"}
            THEN [ok |-> TRUE,
                  pc |-> [p EXCEPT !.remoteDesc = op.data, !.sig = "have-remote-offer"]]
            ELSE IF p.sig = "have-local-offer" /\ rollback
            THEN [ok |-> TRUE,
                  pc |-> [p EXCEPT !.localDesc = NoDesc, !.remoteDesc = op.data,
                                   !.sig = "have-remote-offer"]]
            ELSE [ok |-> FALSE, pc |-> p]
      [] op.op = "createAnswer" ->
            [ok |-> p.sig = "have-remote-offer", pc |-> p]
      [] op.op = "setLocalAnswer" ->
            IF p.sig = "have-remote-offer"
            THEN [ok |-> TRUE,
                  pc |-> [p EXCEPT !.localDesc = Answer(t, p.remoteDesc.from),
                                   !.sig = "stable"]]
            ELSE [ok |-> FALSE, pc |-> p]
      [] op.op = "setRemoteAnswer" ->
            IF p.sig = "have-local-offer"
            THEN [ok |-> TRUE, pc |-> [p EXCEPT !.remoteDesc = op.data, !.sig = "stable"]]
            ELSE [ok |-> FALSE, pc |-> p]
      [] op.op = "addIceCandidate" ->
            IF p.remoteDesc # NoDesc
            THEN [ok |-> TRUE, pc |-> [p EXCEPT !.candidates = Append(@, op.data)]]
            ELSE [ok |-> FALSE, pc |-> p]

\* What the awaiting handler calls next on the transport when op has resolved
NextOps(op) ==
    CASE op.op = "createOffer" -> <<Op("setLocalOffer", NoDesc)>>
      [] op.op = "setRemoteOffer" -> <<Op("createAnswer", NoDesc)>>
      [] op.op = "createAnswer" -> <<Op("setLocalAnswer", NoDesc)>>
      [] OTHER -> <<>>

\* What an awaiting handler sends when it sends the answer as soon as it is
\* created, and again when it is applied
SignalAfterCreate(op, p, t) ==
    CASE op.op = "setLocalOffer" -> <<WebRTCSignal("offer", p.localDesc, p.peer, p.owner)>>
      [] op.op \in {"createAnswer", "setLocalAnswer"} ->
            <<WebRTCSignal("answer", Answer(t, p.remoteDesc.from), p.peer, p.owner)>>
      [] OTHER -> <<>>

\* What the awaiting handler sends when op has resolved
SignalAfter(op, p, t) ==
    CASE op.op = "setLocalOffer" -> <<WebRTCSignal("offer", p.localDesc, p.peer, p.owner)>>
      [] op.op = "setLocalAnswer" -> <<WebRTCSignal("answer", p.localDesc, p.peer, p.owner)>>
      [] OTHER -> <<>>

\* The catch of createPeerConnection shows an error, the other catches log
CatchShowsError(op) == op.op \in {"createOffer", "setLocalOffer"}

\* The operation at the head of the chain of transport t settles and the
\* handler that awaits it runs to its next await or to its end.
ChainStep(t) ==
    LET p == pcs[t]
        c == p.owner
        op == Head(p.chain)
        r == ApplyOp(p, t, op, platform[c] = "rollback")
        signals == IF r.ok THEN SignalAfter(op, r.pc, t) ELSE <<>>
    IN
    /\ p.origin # "free" /\ ~p.closed /\ p.chain # <<>> /\ Live(c)
    /\ pcs' = [pcs EXCEPT ![t] =
                  [r.pc EXCEPT !.chain = Tail(p.chain) \o (IF r.ok THEN NextOps(op) ELSE <<>>),
                               \* history: signals of t that sendMessage did not send
                               !.dropped = @ + (IF /\ signals # <<>>
                                                   /\ sendMessage(socket[c], sockets, signals[1]) = <<>>
                                                THEN 1 ELSE 0)]]
    /\ errors' = [errors EXCEPT ![c].peerFailed =
                     @ + (IF ~r.ok /\ CatchShowsError(op) THEN 1 ELSE 0)]
    /\ Emit(IF signals = <<>> THEN <<>> ELSE sendMessage(socket[c], sockets, signals[1]), inbox)
    /\ UNCHANGED <<localStream, remoteStreams, peerConnections, socket, reconnectAttempts,
                   heartbeatInterval, participants, initPc, nextPc, sockets, nextSock,
                   hbTimers, reconnectTimers, page, room, platform, envCount, leftAt,
                   sinceOpen, early, media>>

\* peerConnection.onicecandidate with a candidate
IceCandidate(t) ==
    LET p == pcs[t]
        c == p.owner
    IN
    /\ p.origin # "free" /\ ~p.closed /\ Live(c)
    /\ p.localDesc # NoDesc /\ p.gathered < MaxCand
    /\ pcs' = [pcs EXCEPT ![t].gathered = @ + 1,
                          ![t].dropped = @ + (IF socket[c] = 0 \/ sockets[socket[c]].state # "OPEN"
                                              THEN 1 ELSE 0)]
    /\ Emit(sendMessage(socket[c], sockets,
                        WebRTCSignal("ice_candidate", Candidate(t, p.gathered + 1), p.peer, c)),
            inbox)
    /\ UNCHANGED <<localStream, remoteStreams, peerConnections, socket, reconnectAttempts,
                   heartbeatInterval, participants, initPc, nextPc, sockets, nextSock,
                   hbTimers, reconnectTimers, errors, page, room, platform, envCount,
                   leftAt, sinceOpen, early, media>>

\* peerConnection.ontrack: the remote stream is stored under the id captured
\* by the handler
RemoteTrack(t) ==
    LET p == pcs[t]
        c == p.owner
    IN
    /\ p.origin # "free" /\ ~p.closed /\ Live(c)
    /\ p.remoteDesc # NoDesc /\ ~p.trackFired
    /\ pcs' = [pcs EXCEPT ![t].trackFired = TRUE]
    /\ remoteStreams' = [remoteStreams EXCEPT ![c] = @ \cup {p.peer}]
    /\ Emit(<<>>, inbox)
    /\ UNCHANGED <<localStream, peerConnections, socket, reconnectAttempts,
                   heartbeatInterval, participants, initPc, nextPc, sockets, nextSock,
                   hbTimers, reconnectTimers, errors, page, room, platform, envCount,
                   leftAt, sinceOpen, early, media>>

\* Transport t has completed an offer/answer exchange
Negotiated(p) == p.sig = "stable" /\ p.localDesc # NoDesc /\ p.remoteDesc # NoDesc

\* ... and, when the peer is a client of the model, the peer holds the other
\* half of the same exchange: one side's offer with the other side's answer to it
Matched(t) ==
    LET p == pcs[t]
    IN \E u \in PcIds :
          LET q == pcs[u]
          IN /\ q.owner = p.peer /\ q.peer = p.owner /\ ~q.closed /\ Negotiated(q)
             /\ \/ /\ p.localDesc = Offer(t) /\ p.remoteDesc = Answer(u, t)
                   /\ q.remoteDesc = Offer(t) /\ q.localDesc = Answer(u, t)
                \/ /\ q.localDesc = Offer(u) /\ q.remoteDesc = Answer(t, u)
                   /\ p.remoteDesc = Offer(u) /\ p.localDesc = Answer(t, u)

CanConnect(t) ==
    LET p == pcs[t]
    IN /\ p.origin # "free" /\ ~p.closed /\ p.conn # "connected"
       /\ Negotiated(p)
       /\ (p.peer \in room => Matched(t))

\* onconnectionstatechange with connectionState = 'connected'
TransportConnected(t) ==
    LET p == pcs[t]
        c == p.owner
    IN
    /\ CanConnect(t) /\ Live(c)
    /\ pcs' = [pcs EXCEPT ![t].conn = "connected"]
    /\ participants' = [participants EXCEPT ![c] =
                           updateParticipantConnectionStatus(@, p.peer, "connected")]
    /\ Emit(<<>>, inbox)
    /\ UNCHANGED <<localStream, remoteStreams, peerConnections, socket, reconnectAttempts,
                   heartbeatInterval, initPc, nextPc, sockets, nextSock,
                   hbTimers, reconnectTimers, errors, page, room, platform, envCount,
                   leftAt, sinceOpen, early, media>>

\* Which handler set calls reconnectPeerConnection on 'failed': the one that
\* createPeerConnection installs
ReconnectsOnFailed(p) == p.origin = "out"

\* onconnectionstatechange with connectionState = 'failed'
TransportFailed(t) ==
    LET p == pcs[t]
        c == p.owner
        st0 == [CoordState(c) EXCEPT
                   !.pcs = [@ EXCEPT ![t].conn = "failed"],
                   !.parts = updateParticipantConnectionStatus(@, p.peer, "failed")]
        st == IF ReconnectsOnFailed(p) THEN reconnectPeerConnection(st0, c, p.peer) ELSE st0
    IN
    /\ p.origin # "free" /\ ~p.closed /\ Live(c)
    /\ p.remoteDesc # NoDesc /\ p.conn # "failed"
    /\ Becomes(c, st)
    /\ early' = [early EXCEPT ![c] = EarlyAfter(c, st.reg)]
    /\ Emit(<<>>, inbox)
    /\ UNCHANGED <<localStream, remoteStreams, socket, reconnectAttempts, heartbeatInterval,
                   initPc, sockets, nextSock, hbTimers, reconnectTimers, errors, page,
                   room, platform, envCount, leftAt, sinceOpen, media>>

\* ---------------------------------------------------------------- leaving
\* WebSocket.close(code): only a socket that is connecting or open changes
SocketClose(sk, code) ==
    IF sk.state \in {"CONNECTING", "OPEN"} THEN [sk EXCEPT !.state = "CLOSING", !.code = code]
    ELSE sk

\* leaveCall, field by field: the value each part of the state has when
\* leaveCall returns
LeavePcs(c) ==
    [t \in PcIds |->
        IF \E u \in Users : peerConnections[c][u] = t THEN ClosePc(pcs[t]) ELSE pcs[t]]
LeavePeerConnections(c) == [u \in Users |-> 0]
LeaveLocalStream(c) == IF localStream[c] = "none" THEN "none" ELSE "stopped"
LeaveSockets(c) ==
    IF socket[c] # 0 THEN [sockets EXCEPT ![socket[c]] = SocketClose(@, 1000)] ELSE sockets
LeaveParticipantsKeepsLocal(c) ==
    [u \in Users |-> IF u = c THEN participants[c][u] ELSE NoParticipant]

LeaveParticipants(c) == [u \in Users |-> NoParticipant]
LeaveRemoteStreams(c) == {}
LeaveReconnectAttempts(c) == 0
LeaveHbTimers(c) == IF heartbeatInterval[c] THEN hbTimers[c] - 1 ELSE hbTimers[c]

leaveCall(c) ==
    /\ hbTimers' = [hbTimers EXCEPT ![c] = LeaveHbTimers(c)]
    /\ heartbeatInterval' = [heartbeatInterval EXCEPT ![c] = FALSE]
    /\ pcs' = LeavePcs(c)
    /\ peerConnections' = [peerConnections EXCEPT ![c] = LeavePeerConnections(c)]
    /\ localStream' = [localStream EXCEPT ![c] = LeaveLocalStream(c)]
    /\ sockets' = LeaveSockets(c)
    /\ participants' = [participants EXCEPT ![c] = LeaveParticipants(c)]
    /\ remoteStreams' = [remoteStreams EXCEPT ![c] = LeaveRemoteStreams(c)]
    /\ reconnectAttempts' = [reconnectAttempts EXCEPT ![c] = LeaveReconnectAttempts(c)]
    /\ leftAt' = [leftAt EXCEPT ![c] = IF @ = "no" THEN initPc[c] ELSE @]
    /\ early' = [early EXCEPT ![c] = [u \in Users |-> <<>>]]
    /\ media' = [media EXCEPT ![c].connectionQuality = "good"]
    /\ Emit(<<>>, inbox)
    /\ UNCHANGED <<socket, initPc, nextPc, nextSock, reconnectTimers, errors, room,
                   platform, envCount, sinceOpen>>

\* The leave button: leaveCall, whose last statement starts the navigation to '/'
LeaveCall(c) ==
    /\ Live(c) /\ initPc[c] # "idle"
    /\ leaveCall(c)
    /\ page' = [page EXCEPT ![c] = "navigating"]

\* The navigation commits: the beforeunload listener calls leaveCall and the
\* page with all its timers, sockets and transports is gone
PageUnload(c) ==
    /\ page[c] = "navigating"
    /\ leaveCall(c)
    /\ page' = [page EXCEPT ![c] = "unloaded"]

\* ------------------------------------------------- user_action of a peer
\* handleUserAction with an unknown id registered first
handleUserActionAddsUnknown(parts, user_id, action) ==
    [parts EXCEPT ![user_id] =
        [isLocal |-> FALSE, isMuted |-> action = "mute", isVideoEnabled |-> action # "video_off",
         connectionState |-> "connecting"]]

\* handleUserAction: the flags of a registered participant follow the action
handleUserAction(parts, user_id, action) ==
    IF parts[user_id] = NoParticipant THEN parts
    ELSE CASE action = "mute" -> [parts EXCEPT ![user_id].isMuted = TRUE]
           [] action = "unmute" -> [parts EXCEPT ![user_id].isMuted = FALSE]
           [] action = "video_on" -> [parts EXCEPT ![user_id].isVideoEnabled = TRUE]
           [] action = "video_off" -> [parts EXCEPT ![user_id].isVideoEnabled = FALSE]
           [] OTHER -> parts

ReceiveUserAction(c) ==
    /\ Delivers(c, "user_action", "")
    /\ participants' = [participants EXCEPT ![c] =
                           handleUserAction(@, Head(inbox[c]).user_id, Head(inbox[c]).action)]
    /\ Emit(<<>>, [inbox EXCEPT ![c] = Tail(@)])
    /\ UNCHANGED <<localStream, remoteStreams, peerConnections, socket, reconnectAttempts,
                   heartbeatInterval, initPc, pcs, nextPc, sockets, nextSock, hbTimers,
                   reconnectTimers, errors, page, room, platform, envCount, leftAt,
                   sinceOpen, early, media>>

\* ---------------------------------------------------------- media controls
\* toggleMute: with a local stream, the audio track is flipped, isMuted
\* follows it and the user_action goes through sendMessage; without one,
\* nothing happens.  toggles counts the calls.
ToggleMute(c) ==
    LET has == localStream[c] # "none"
        enabled == IF has THEN ~media[c].audioEnabled ELSE media[c].audioEnabled
        isMuted == IF has THEN ~enabled ELSE media[c].isMuted
    IN
    /\ Live(c) /\ initPc[c] # "idle" /\ media[c].toggles < MaxToggle
    /\ media' = [media EXCEPT ![c].audioEnabled = enabled, ![c].isMuted = isMuted,
                              ![c].toggles = @ + 1]
    /\ Emit(IF has
            THEN sendMessage(socket[c], sockets,
                             UserAction(c, IF isMuted THEN "mute" ELSE "unmute"))
            ELSE <<>>, inbox)
    /\ UNCHANGED <<localStream, remoteStreams, peerConnections, socket, reconnectAttempts,
                   heartbeatInterval, participants, initPc, pcs, nextPc, sockets, nextSock,
                   hbTimers, reconnectTimers, errors, page, room, platform, envCount,
                   leftAt, sinceOpen, early>>

\* The forEach of startScreenShare and of stopScreenShare: replaceTrack on the
\* video sender of every transport in the session registry of c
ReplaceVideo(c, track) ==
    [t \in PcIds |->
        IF (\E u \in Users : peerConnections[c][u] = t) /\ pcs[t].video # "none"
        THEN [pcs[t] EXCEPT !.video = track] ELSE pcs[t]]

\* history: the transports stopScreenShare takes from the screen track back to
\* the camera track
Restores(c) ==
    Cardinality({t \in PcIds : /\ \E u \in Users : peerConnections[c][u] = t
                               /\ pcs[t].video = "screen" /\ localStream[c] # "none"})

\* stopScreenShare: the transports when it returns
StopKeepsScreen(c) == pcs

StopScreenShare(c) == IF localStream[c] # "none" THEN ReplaceVideo(c, "camera") ELSE pcs

\* toggleScreenShare: stopScreenShare when sharing, otherwise startScreenShare
\* up to its await of getDisplayMedia
ToggleScreenShare(c) ==
    /\ Live(c) /\ initPc[c] # "idle"
    /\ IF media[c].isScreenSharing
       THEN /\ pcs' = StopScreenShare(c)
            /\ media' = [media EXCEPT ![c].isScreenSharing = FALSE,
                                      ![c].restored = @ + Restores(c)]
       ELSE /\ media[c].shares < MaxShare
            /\ pcs' = pcs
            /\ media' = [media EXCEPT ![c].pendingDisplay = @ + 1, ![c].shares = @ + 1]
    /\ Emit(<<>>, inbox)
    /\ UNCHANGED <<localStream, remoteStreams, peerConnections, socket, reconnectAttempts,
                   heartbeatInterval, participants, initPc, nextPc, sockets, nextSock,
                   hbTimers, reconnectTimers, errors, page, room, platform, envCount,
                   leftAt, sinceOpen, early>>

\* getDisplayMedia resolves: the rest of startScreenShare
DisplayResolved(c) ==
    /\ Live(c) /\ media[c].pendingDisplay > 0
    /\ pcs' = ReplaceVideo(c, "screen")
    /\ media' = [media EXCEPT ![c].pendingDisplay = @ - 1, ![c].screenTracks = @ + 1,
                              ![c].isScreenSharing = TRUE]
    /\ Emit(<<>>, inbox)
    /\ UNCHANGED <<localStream, remoteStreams, peerConnections, socket, reconnectAttempts,
                   heartbeatInterval, participants, initPc, nextPc, sockets, nextSock,
                   hbTimers, reconnectTimers, errors, page, room, platform, envCount,
                   leftAt, sinceOpen, early>>

\* getDisplayMedia rejects: startScreenShare rethrows and the catch of
\* toggleScreenShare shows the error
DisplayRejected(c) ==
    /\ Live(c) /\ media[c].pendingDisplay > 0
    /\ media' = [media EXCEPT ![c].pendingDisplay = @ - 1]
    /\ errors' = [errors EXCEPT ![c].share = @ + 1]
    /\ Emit(<<>>, inbox)
    /\ UNCHANGED <<localStream, remoteStreams, peerConnections, socket, reconnectAttempts,
                   heartbeatInterval, participants, initPc, pcs, nextPc, sockets, nextSock,
                   hbTimers, reconnectTimers, page, room, platform, envCount,
                   leftAt, sinceOpen, early>>

\* videoTrack.onended of a screen track: stopScreenShare
ScreenTrackEnded(c) ==
    /\ Live(c) /\ media[c].screenTracks > 0
    /\ pcs' = StopScreenShare(c)
    /\ media' = [media EXCEPT ![c].screenTracks = @ - 1, ![c].isScreenSharing = FALSE,
                              ![c].restored = @ + Restores(c)]
    /\ Emit(<<>>, inbox)
    /\ UNCHANGED <<localStream, remoteStreams, peerConnections, socket, reconnectAttempts,
                   heartbeatInterval, participants, initPc, nextPc, sockets, nextSock,
                   hbTimers, reconnectTimers, errors, page, room, platform, envCount,
                   leftAt, sinceOpen, early>>

\* ------------------------------------------------------- signaling hub
ParticipantLists == {<<>>, <<"A">>, <<"A", "B">>, <<"B", "C">>}
SignalSenders == {"A", "B"}

\* The frames the hub can put on the socket of client c
HubFrames(c) ==
    {UserJoined(u) : u \in Peers} \cup {UserLeft(u) : u \in Peers}
    \cup {ParticipantsList(l) : l \in ParticipantLists}
    \cup {WebRTCSignal("offer", Offer(0), c, u) : u \in SignalSenders}
    \cup {WebRTCSignal("answer", Answer(0, peerConnections[c][u]), c, u) : u \in SignalSenders}
    \cup {WebRTCSignal("ice_candidate", Candidate(0, envCount + 1), c, u) : u \in SignalSenders}

\* The corrupt frames: a text that is not JSON, a user_joined without user_id
\* (the handler reads undefined), a participants_list without participants
Unparseable == [Frame("") EXCEPT !.lacks = {"json"}]

CorruptFrames(c) ==
    {Unparseable,
     [UserJoined(Undefined) EXCEPT !.lacks = {"user_id"}],
     [ParticipantsList(<<>>) EXCEPT !.lacks = {"participants"}]}

\* The user_action frames the hub passes on, one of them with an action the
\* handler does not know
Actions == {"mute", "unmute", "video_on", "video_off", "hand_up"}

ActionFrames(c) == {UserAction(u, a) : u \in {"A", "B"}, a \in Actions}

\* The answer of the hub to a ping, and a frame that is only logged
BeatFrames == {Frame("pong"), Frame("room_stats")}

HubSends(c, m) ==
    /\ Live(c) /\ HasOpenSocket(c) /\ inbox[c] = <<>>
    /\ envCount < MaxEnv
    /\ m \in HubFrames(c) \cup CorruptFrames(c) \cup ActionFrames(c) \cup BeatFrames
    /\ envCount' = envCount + 1
    /\ out' = <<>>
    /\ handled' = NoFrame
    /\ departed' = departed
    /\ inbox' = [inbox EXCEPT ![c] = Append(@, m)]
    /\ UNCHANGED <<localStream, remoteStreams, peerConnections, socket, reconnectAttempts,
                   heartbeatInterval, participants, initPc, pcs, nextPc, sockets, nextSock,
                   hbTimers, reconnectTimers, errors, page, room, platform, leftAt,
                   sinceOpen, early, media>>

\* ------------------------------------------------------- specifications
Fresh ==
    /\ localStream = [c \in Clients |-> "none"]
    /\ remoteStreams = [c \in Clients |-> {}]
    /\ peerConnections = [c \in Clients |-> [u \in Users |-> 0]]
    /\ socket = [c \in Clients |-> 0]
    /\ reconnectAttempts = [c \in Clients |-> 0]
    /\ heartbeatInterval = [c \in Clients |-> FALSE]
    /\ participants = [c \in Clients |-> [u \in Users |-> NoParticipant]]
    /\ initPc = [c \in Clients |-> "idle"]
    /\ pcs = [t \in PcIds |-> FreePc]
    /\ nextPc = 1
    /\ sockets = [s \in SockIds |-> FreeSock]
    /\ nextSock = 1
    /\ hbTimers = [c \in Clients |-> 0]
    /\ reconnectTimers = [c \in Clients |-> <<>>]
    /\ errors = [c \in Clients |-> NoErrors]
    /\ page = [c \in Clients |-> "live"]
    /\ inbox = [c \in Clients |-> <<>>]
    /\ out = <<>>
    /\ envCount = 0
    /\ leftAt = [c \in Clients |-> "no"]
    /\ sinceOpen = [c \in Clients |-> 0]
    /\ early = [c \in Clients |-> [u \in Users |-> <<>>]]
    /\ handled = NoFrame
    /\ departed = [c \in Clients |-> {}]
    /\ media = [c \in Clients |-> NoMedia]

\* One client, just constructed; the hub and the transports are its environment
Init ==
    /\ Fresh
    /\ room = {"A"}
    /\ platform \in {[c \in Clients |-> x] : x \in {"rollback", "throw"}}

Next ==
    \/ \E c \in room : InitializeCall(c)
    \/ \E c \in room : MediaResolved(c)
    \/ \E c \in room : MediaRejected(c)
    \/ \E c \in room, s \in SockIds : SocketOpen(c, s)
    \/ \E c \in room, s \in SockIds : SocketEnds(c, s)
    \/ \E c \in room, i \in 1..MaxSock : TimerFires(c, i)
    \/ \E c \in room : HeartbeatTick(c)
    \/ \E c \in room : LeaveCall(c)
    \/ \E c \in room : PageUnload(c)
    \/ \E c \in room : \E m \in HubFrames(c) : HubSends(c, m)
    \/ \E c \in room : ReceiveUserJoined(c)
    \/ \E c \in room : ReceiveUserLeft(c)
    \/ \E c \in room : ReceiveParticipantsList(c)
    \/ \E c \in room : ReceiveOffer(c)
    \/ \E c \in room : ReceiveAnswer(c)
    \/ \E c \in room : ReceiveIceCandidate(c)
    \/ \E t \in PcIds : ChainStep(t)
    \/ \E t \in PcIds : IceCandidate(t)
    \/ \E t \in PcIds : RemoteTrack(t)
    \/ \E t \in PcIds : TransportConnected(t)
    \/ \E t \in PcIds : TransportFailed(t)
    \/ \E c \in room : \E m \in CorruptFrames(c) : HubSends(c, m)
    \/ \E c \in room : ReceiveUnparseable(c)
    \/ \E c \in room : \E m \in ActionFrames(c) : HubSends(c, m)
    \/ \E c \in room : ReceiveUserAction(c)
    \/ \E c \in room : ToggleMute(c)
    \/ \E c \in room : ToggleScreenShare(c)
    \/ \E c \in room : DisplayResolved(c)
    \/ \E c \in room : DisplayRejected(c)
    \/ \E c \in room : ScreenTrackEnded(c)

Spec == Init /\ [][Next]_vars

\* The signaling channel alone: joining, the socket's life, the backoff
\* timers, the heartbeat and leaving
NextChannel ==
    \/ \E c \in room : InitializeCall(c)
    \/ \E c \in room : MediaResolved(c)
    \/ \E c \in room : MediaRejected(c)
    \/ \E c \in room, s \in SockIds : SocketOpen(c, s)
    \/ \E c \in room, s \in SockIds : SocketEnds(c, s)
    \/ \E c \in room, i \in 1..MaxSock : TimerFires(c, i)
    \/ \E c \in room : HeartbeatTick(c)
    \/ \E c \in room : LeaveCall(c)
    \/ \E c \in room : PageUnload(c)

SpecChannel == Init /\ [][NextChannel]_vars

\* The sessions of one client on a channel that stays up until the client leaves
NextSession ==
    \/ \E c \in room : InitializeCall(c)
    \/ \E c \in room : MediaResolved(c)
    \/ \E c \in room, s \in SockIds : SocketOpen(c, s)
    \/ \E c \in room : LeaveCall(c)
    \/ \E c \in room : \E m \in HubFrames(c) : HubSends(c, m)
    \/ \E c \in room : ReceiveUserJoined(c)
    \/ \E c \in room : ReceiveUserLeft(c)
    \/ \E c \in room : ReceiveParticipantsList(c)
    \/ \E c \in room : ReceiveOffer(c)
    \/ \E c \in room : ReceiveAnswer(c)
    \/ \E c \in room : ReceiveIceCandidate(c)
    \/ \E t \in PcIds : ChainStep(t)
    \/ \E t \in PcIds : RemoteTrack(t)
    \/ \E t \in PcIds : TransportConnected(t)
    \/ \E t \in PcIds : TransportFailed(t)

SpecSession == Init /\ [][NextSession]_vars

\* The two-party join: A is in the room with its socket open, B has just
\* completed its join; the hub has put user_joined(B) on A's socket and the
\* participants_list with A and B on B's socket.
InCall(c, s) ==
    [owner |-> c, state |-> "OPEN", awaiter |-> "init", settled |-> TRUE, code |-> 0]

InitPair ==
    /\ localStream = [c \in Clients |-> "live"]
    /\ remoteStreams = [c \in Clients |-> {}]
    /\ peerConnections = [c \in Clients |-> [u \in Users |-> 0]]
    /\ socket = [c \in Clients |-> IF c = "A" THEN 1 ELSE 2]
    /\ reconnectAttempts = [c \in Clients |-> 0]
    /\ heartbeatInterval = [c \in Clients |-> TRUE]
    /\ participants = [c \in Clients |->
                          addParticipant([u \in Users |-> NoParticipant], c, TRUE)]
    /\ initPc = [c \in Clients |-> "done"]
    /\ pcs = [t \in PcIds |-> FreePc]
    /\ nextPc = 1
    /\ sockets = [s \in SockIds |->
                      IF s = 1 THEN InCall("A", s) ELSE IF s = 2 THEN InCall("B", s)
                      ELSE FreeSock]
    /\ nextSock = 3
    /\ hbTimers = [c \in Clients |-> 1]
    /\ reconnectTimers = [c \in Clients |-> <<>>]
    /\ errors = [c \in Clients |-> NoErrors]
    /\ page = [c \in Clients |-> "live"]
    /\ inbox = [c \in Clients |->
                   IF c = "A" THEN <<UserJoined("B")>> ELSE <<ParticipantsList(<<"A", "B">>)>>]
    /\ out = <<>>
    /\ envCount = 0
    /\ leftAt = [c \in Clients |-> "no"]
    /\ sinceOpen = [c \in Clients |-> 0]
    /\ early = [c \in Clients |-> [u \in Users |-> <<>>]]
    /\ handled = NoFrame
    /\ departed = [c \in Clients |-> {}]
    /\ media = [c \in Clients |-> NoMedia]
    /\ room = {"A", "B"}
    /\ platform \in {[c \in Clients |-> x] : x \in {"rollback", "throw"}}

NextPair ==
    \/ \E c \in room : ReceiveUserJoined(c)
    \/ \E c \in room : ReceiveParticipantsList(c)
    \/ \E c \in room : ReceiveOffer(c)
    \/ \E c \in room : ReceiveAnswer(c)
    \/ \E c \in room : ReceiveIceCandidate(c)
    \/ \E t \in PcIds : ChainStep(t)
    \/ \E t \in PcIds : IceCandidate(t)
    \/ \E t \in PcIds : RemoteTrack(t)
    \/ \E t \in PcIds : TransportConnected(t)

SpecPair == InitPair /\ [][NextPair]_vars

\* ------------------------------------------------------------- properties
Other(c) == CHOOSE u \in Clients : u # c

\* Nothing is left to happen between the two clients: every frame has been
\* delivered, every operation has settled and no transport can still connect
PairSettled ==
    /\ \A c \in Clients : inbox[c] = <<>>
    /\ \A t \in PcIds : pcs[t].chain = <<>> /\ ~CanConnect(t)

\* C1: in the two-party join, under every interleaving of the offers, answers
\* and candidates (both sides offering included), once everything has settled
\* A holds exactly one session, keyed by B, B exactly one, keyed by A, and
\* both sessions are connected.
C1_BothConnected ==
    PairSettled =>
        \A c \in Clients :
            /\ Sessions(c) = {Other(c)}
            /\ pcs[peerConnections[c][Other(c)]].conn = "connected"

\* The candidates of cands that transport t was handed, in the order it got them
HandedOver(t, cands) ==
    SelectSeq(pcs[t].candidates, LAMBDA x : \E i \in 1..Len(cands) : cands[i] = x)

\* C2: a candidate of peer u that arrived before u's description was applied
\* is not lost: once the session of u has a remote description and nothing is
\* in flight on its transport, the transport has been handed every such
\* candidate exactly once, in arrival order.
C2_EarlyCandidatesHandedOver ==
    \A c \in Clients, u \in Users :
        LET t == peerConnections[c][u]
        IN (t # 0 /\ pcs[t].remoteDesc # NoDesc /\ pcs[t].chain = <<>>)
              => HandedOver(t, early[c][u]) = early[c][u]

\* C3: when the transport of a registered session reports 'failed', whichever
\* path created the session, the old transport is closed and dropped from the
\* registry and a new transport for the same peer is registered with its
\* offer being created.
C3_FailedSessionReoffers ==
    [][\A t \in PcIds :
          LET c == pcs[t].owner
              u == pcs[t].peer
          IN (TransportFailed(t) /\ peerConnections[c][u] = t)
                => /\ pcs'[t].closed
                   /\ peerConnections'[c][u] \notin {0, t}
                   /\ pcs'[peerConnections'[c][u]].chain = <<Op("createOffer", NoDesc)>>]_vars

C5_NoReconnectAfterLeave ==
    [][\A c \in Clients :
          leftAt[c] = "done" =>
             /\ Len(reconnectTimers'[c]) <= Len(reconnectTimers[c])
             /\ nextSock' = nextSock
             /\ out' = <<>>]_vars

\* C6: after a leaveCall that came while initializeCall was awaiting the media
\* or the socket, no participant is registered, no socket is connecting or
\* open, no frame goes out and no heartbeat timer runs.
C6_LeaveMidJoinStaysDown ==
    \A c \in Clients :
        leftAt[c] \in {"awaitMedia", "awaitSocket"} =>
           /\ Keys(c) = {}
           /\ \A s \in SockIds :
                 sockets[s].owner = c => sockets[s].state \notin {"CONNECTING", "OPEN"}
           /\ \A i \in 1..Len(out) : sockets[out[i].sock].owner # c
           /\ hbTimers[c] = 0

\* C7: on a channel that had opened and that the user has not left, at most
\* maxReconnectAttempts attempts are made after the last open, the
\* connection-lost error is shown only after the last of them has failed and
\* with no further attempt scheduled, and it is shown once.
C7_TerminalErrorOnce ==
    \A c \in Clients :
        (leftAt[c] = "no" /\ initPc[c] = "done") =>
           /\ sinceOpen[c] <= maxReconnectAttempts
           /\ errors[c].connLost >= 1 =>
                 /\ sinceOpen[c] = maxReconnectAttempts
                 /\ reconnectTimers[c] = <<>>
           /\ errors[c].connLost <= 1

Opens(c, s) == sockets[s].owner = c /\ sockets[s].state # "OPEN" /\ sockets'[s].state = "OPEN"

\* C9: in the step in which a socket opens, reconnectAttempts becomes 0 and
\* exactly two frames go out, both on that socket: user_info, then
\* get_participants; no other step sends either frame.
C9_OpenResetsAndGreets ==
    [][/\ \A c \in Clients, s \in SockIds :
             Opens(c, s) =>
                /\ reconnectAttempts'[c] = 0
                /\ Len(out') = 2
                /\ out'[1].sock = s /\ out'[1].msg.type = "user_info"
                /\ out'[1].msg.user_id = c
                /\ out'[2].sock = s /\ out'[2].msg.type = "get_participants"
       /\ (\A c \in Clients, s \in SockIds : ~Opens(c, s)) =>
             \A i \in 1..Len(out') :
                out'[i].msg.type \notin {"user_info", "get_participants"}]_vars

\* a socket opened by a reconnection has just sent the handshake, and the
\* counter of attempts is back at 0
C9_ReopenedAndGreeted ==
    \E c \in Clients, s \in SockIds :
        /\ sockets[s].owner = c /\ sockets[s].awaiter = "reconnect"
        /\ sockets[s].state = "OPEN"
        /\ Len(out) = 2 /\ out[1].msg.type = "user_info"
        /\ reconnectAttempts[c] = 0

Size(c) == Cardinality(Keys(c))

\* C10 as stated: every user_joined adds one to the size of the participant
\* registry, every user_left of a registered id takes one away, a user_left
\* of an unknown id changes nothing.
C10_SizeCountsEvents ==
    [][\A c \in Clients :
          /\ ReceiveUserJoined(c) => Size(c)' = Size(c) + 1
          /\ ReceiveUserLeft(c) =>
                IF Head(inbox[c]).user_id \in Keys(c)
                THEN Size(c)' = Size(c) - 1
                ELSE participants'[c] = participants[c]]_vars

\* C10, amended: a user_joined adds one to the size of the participant
\* registry when its id is not the local one and not yet registered, and
\* leaves the size as it is otherwise; a user_left takes one away when its id
\* is registered and leaves the registry unchanged otherwise.
C10_SizeCountsEffectiveEvents ==
    [][\A c \in Clients :
          LET id == Head(inbox[c]).user_id
          IN /\ ReceiveUserJoined(c) =>
                   IF id # c /\ id \notin Keys(c)
                   THEN Size(c)' = Size(c) + 1 /\ Keys(c)' = Keys(c) \cup {id}
                   ELSE Keys(c)' = Keys(c)
             /\ ReceiveUserLeft(c) =>
                   IF id \in Keys(c)
                   THEN Size(c)' = Size(c) - 1 /\ Keys(c)' = Keys(c) \ {id}
                   ELSE participants'[c] = participants[c]]_vars

\* a user_joined for an id that was registered has been handled (the second
\* transport for the same peer shows it), and the registry holds that id once
C10_JoinedTwice ==
    \E c \in Clients, u \in Users :
        /\ u # c /\ peerConnections[c][u] = 2 /\ pcs[1].peer = u /\ pcs[1].owner = c
        /\ pcs[1].origin = "out" /\ pcs[2].origin = "out" /\ ~pcs[1].closed
        /\ Keys(c) = {c, u}

\* The ids a participants_list names
Listed(l) == {l[i] : i \in 1..Len(l)}

\* C11: a participants_list creates a participant and an outbound session
\* for exactly the listed ids that are neither the local id nor in the
\* participant registry; the record and the session of every other id are
\* left as they are and no transport is created for them.
C11_ListAddsOnlyUnknown ==
    [][\A c \in Clients :
          ReceiveParticipantsList(c) =>
             LET new == Listed(Head(inbox[c]).participants) \ ({c} \cup Keys(c))
             IN /\ \A u \in Users \ new :
                      /\ participants'[c][u] = participants[c][u]
                      /\ peerConnections'[c][u] = peerConnections[c][u]
                /\ \A u \in new :
                      /\ participants'[c][u] # NoParticipant
                      /\ peerConnections'[c][u] # 0
                /\ nextPc' = nextPc + Cardinality(new)]_vars

\* ------------------------------------------------ the VideoArea component
\* VideoArea, the webrtc_signal case: a sender without a session gets a new
\* transport with the local tracks, whatever the signal type is
AreaSetup(st, c, sender_user_id) ==
    [st EXCEPT
        !.pcs = [@ EXCEPT ![st.next] =
                    [FreePc EXCEPT !.owner = c, !.peer = sender_user_id, !.origin = "area",
                                   !.tracks = (localStream[c] # "none"),
                                   !.video = IF localStream[c] # "none" THEN "camera"
                                             ELSE "none"]],
        !.reg = [@ EXCEPT ![sender_user_id] = st.next],
        !.next = @ + 1]

\* The operation the webrtc_signal case awaits first
AreaOp(m) ==
    CASE m.signal_type = "offer" -> Op("setRemoteOffer", m.data)
      [] m.signal_type = "answer" -> Op("setRemoteAnswer", m.data)
      [] m.signal_type = "ice_candidate" -> Op("addIceCandidate", m.data)

\* VideoArea.handleWebSocketMessage, case 'webrtc_signal', up to its first await
AreaWebRTCSignal(st, c, m) ==
    IF m.sender_user_id = c THEN st
    ELSE LET st1 == IF st.reg[m.sender_user_id] = 0
                    THEN AreaSetup(st, c, m.sender_user_id) ELSE st
         IN [st1 EXCEPT !.pcs = [@ EXCEPT ![st1.reg[m.sender_user_id]].chain =
                                      Append(@, AreaOp(m))]]

AreaReceiveSignal(c) ==
    /\ Live(c) /\ HasOpenSocket(c) /\ inbox[c] # <<>>
    /\ Head(inbox[c]).type = "webrtc_signal"
    /\ LET m == Head(inbox[c])
           st == AreaWebRTCSignal(CoordState(c), c, m)
       IN /\ Becomes(c, st)
          /\ early' = [early EXCEPT ![c][m.sender_user_id] =
                          IF /\ m.signal_type = "ice_candidate" /\ m.sender_user_id # c
                             /\ \/ peerConnections[c][m.sender_user_id] = 0
                                \/ pcs[peerConnections[c][m.sender_user_id]].remoteDesc = NoDesc
                          THEN Append(@, m.data) ELSE @]
    /\ Emit(<<>>, [inbox EXCEPT ![c] = Tail(@)])
    /\ UNCHANGED <<localStream, remoteStreams, socket, reconnectAttempts, heartbeatInterval,
                   initPc, sockets, nextSock, hbTimers, reconnectTimers, errors, page,
                   room, platform, envCount, leftAt, sinceOpen, media>>

\* VideoArea.handleWebSocketMessage, case 'user_left'
AreaReceiveUserLeft(c) ==
    /\ Delivers(c, "user_left", "")
    /\ LET st == closePeerConnection(CoordState(c), Head(inbox[c]).user_id)
       IN /\ Becomes(c, st)
          /\ early' = [early EXCEPT ![c] = EarlyAfter(c, st.reg)]
    /\ Emit(<<>>, [inbox EXCEPT ![c] = Tail(@)])
    /\ UNCHANGED <<localStream, remoteStreams, socket, reconnectAttempts, heartbeatInterval,
                   initPc, sockets, nextSock, hbTimers, reconnectTimers, errors, page,
                   room, platform, envCount, leftAt, sinceOpen, media>>

\* The frames of the hub that the specification of the component covers
AreaFrames(c) == {m \in HubFrames(c) : m.type \in {"webrtc_signal", "user_left"}}

\* joinRoom once getUserMedia has resolved: the stream is stored and the
\* socket is created; the component has no participant registry
AreaJoinRoom(c) ==
    /\ Live(c) /\ initPc[c] = "idle" /\ nextSock <= MaxSock
    /\ localStream' = [localStream EXCEPT ![c] = "live"]
    /\ sockets' = [sockets EXCEPT ![nextSock] =
                      [owner |-> c, state |-> "CONNECTING", awaiter |-> "",
                       settled |-> FALSE, code |-> 0]]
    /\ socket' = [socket EXCEPT ![c] = nextSock]
    /\ nextSock' = nextSock + 1
    /\ initPc' = [initPc EXCEPT ![c] = "awaitSocket"]
    /\ Emit(<<>>, inbox)
    /\ UNCHANGED <<remoteStreams, peerConnections, reconnectAttempts, heartbeatInterval,
                   participants, pcs, nextPc, hbTimers, reconnectTimers, errors, page,
                   room, platform, envCount, leftAt, sinceOpen, early, media>>

\* socketRef.current.onopen: user_info, then get_participants; no heartbeat
AreaSocketOpen(c) ==
    /\ Live(c) /\ initPc[c] = "awaitSocket"
    /\ socket[c] # 0 /\ sockets[socket[c]].state = "CONNECTING"
    /\ sockets' = [sockets EXCEPT ![socket[c]].state = "OPEN", ![socket[c]].settled = TRUE]
    /\ initPc' = [initPc EXCEPT ![c] = "done"]
    /\ Emit(sendMessage(socket[c], sockets', UserInfo(c))
            \o sendMessage(socket[c], sockets', GetParticipants), inbox)
    /\ UNCHANGED <<localStream, remoteStreams, peerConnections, socket, reconnectAttempts,
                   heartbeatInterval, participants, pcs, nextPc, nextSock, hbTimers,
                   reconnectTimers, errors, page, room, platform, envCount, leftAt,
                   sinceOpen, early, media>>

NextArea ==
    \/ \E c \in room : AreaJoinRoom(c)
    \/ \E c \in room : AreaSocketOpen(c)
    \/ \E c \in room : \E m \in AreaFrames(c) : HubSends(c, m)
    \/ \E c \in room : AreaReceiveSignal(c)
    \/ \E c \in room : AreaReceiveUserLeft(c)
    \/ \E t \in PcIds : ChainStep(t)
    \/ \E t \in PcIds : RemoteTrack(t)

\* The VideoArea component of one client, with the hub and the transports
SpecArea == Init /\ [][NextArea]_vars

\* The task of this step took the frame at the head of c's inbox
Consumes(c) ==
    /\ inbox[c] # <<>> /\ inbox'[c] = Tail(inbox[c])
    /\ handled' = Head(inbox[c])

\* C12: a webrtc_signal goes to the session keyed by its sender and to no
\* other transport; for a sender without a session, an offer creates the
\* session and an answer or ice_candidate creates neither session nor transport.
C12_SignalRoutedBySender ==
    [][\A c \in Clients :
          (Consumes(c) /\ handled'.type = "webrtc_signal" /\ handled'.sender_user_id # c) =>
             LET m == handled'
                 u == m.sender_user_id
             IN /\ \A t \in PcIds : t # peerConnections'[c][u] => pcs'[t] = pcs[t]
                /\ \A v \in Users \ {u} : peerConnections'[c][v] = peerConnections[c][v]
                /\ peerConnections[c][u] # 0 => peerConnections'[c][u] = peerConnections[c][u]
                /\ (peerConnections[c][u] = 0 /\ m.signal_type = "offer") =>
                      (peerConnections'[c][u] = nextPc /\ nextPc' = nextPc + 1)
                /\ (peerConnections[c][u] = 0 /\ m.signal_type # "offer") =>
                      (peerConnections'[c][u] = 0 /\ nextPc' = nextPc)]_vars

\* ------------------------------------------------ one peer's sessions
\* Client A is in the call with its socket open and peer B has just joined:
\* B's offer to A is on A's socket.
InitPeer ==
    /\ localStream = [c \in Clients |-> IF c = "A" THEN "live" ELSE "none"]
    /\ remoteStreams = [c \in Clients |-> {}]
    /\ peerConnections = [c \in Clients |-> [u \in Users |-> 0]]
    /\ socket = [c \in Clients |-> IF c = "A" THEN 1 ELSE 0]
    /\ reconnectAttempts = [c \in Clients |-> 0]
    /\ heartbeatInterval = [c \in Clients |-> c = "A"]
    /\ participants = [c \in Clients |->
                          IF c = "A" THEN addParticipant([u \in Users |-> NoParticipant], c, TRUE)
                          ELSE [u \in Users |-> NoParticipant]]
    /\ initPc = [c \in Clients |-> IF c = "A" THEN "done" ELSE "idle"]
    /\ pcs = [t \in PcIds |-> FreePc]
    /\ nextPc = 1
    /\ sockets = [s \in SockIds |-> IF s = 1 THEN InCall("A", s) ELSE FreeSock]
    /\ nextSock = 2
    /\ hbTimers = [c \in Clients |-> IF c = "A" THEN 1 ELSE 0]
    /\ reconnectTimers = [c \in Clients |-> <<>>]
    /\ errors = [c \in Clients |-> NoErrors]
    /\ page = [c \in Clients |-> "live"]
    /\ inbox = [c \in Clients |->
                   IF c = "A" THEN <<WebRTCSignal("offer", Offer(0), "A", "B")>> ELSE <<>>]
    /\ out = <<>>
    /\ envCount = 0
    /\ leftAt = [c \in Clients |-> "no"]
    /\ sinceOpen = [c \in Clients |-> 0]
    /\ early = [c \in Clients |-> [u \in Users |-> <<>>]]
    /\ handled = NoFrame
    /\ departed = [c \in Clients |-> {}]
    /\ media = [c \in Clients |-> NoMedia]
    /\ room = {"A"}
    /\ platform \in {[c \in Clients |-> x] : x \in {"rollback", "throw"}}

NextPeer ==
    \/ \E c \in room : \E m \in HubFrames(c) : HubSends(c, m)
    \/ \E c \in room : ReceiveUserJoined(c)
    \/ \E c \in room : ReceiveUserLeft(c)
    \/ \E c \in room : ReceiveParticipantsList(c)
    \/ \E c \in room : ReceiveOffer(c)
    \/ \E c \in room : ReceiveAnswer(c)
    \/ \E c \in room : ReceiveIceCandidate(c)
    \/ \E t \in PcIds : ChainStep(t)
    \/ \E t \in PcIds : RemoteTrack(t)
    \/ \E t \in PcIds : TransportConnected(t)
    \/ \E t \in PcIds : TransportFailed(t)

SpecPeer == InitPeer /\ [][NextPeer]_vars

\* Every transport client c created for peer u is closed
TransportsClosed(c, u) ==
    \A t \in PcIds : (pcs[t].owner = c /\ pcs[t].peer = u) => pcs[t].closed

\* u has no entry in the participant, session and remote-stream registries of c
Unregistered(c, u) ==
    /\ participants[c][u] = NoParticipant
    /\ peerConnections[c][u] = 0
    /\ u \notin remoteStreams[c]

\* C13: once user_left for X has been handled, and until a user_joined, a
\* participants_list or an offer names X again, every transport created for X
\* is closed and X is in none of the three registries, whatever callbacks of
\* those transports run in between.
C13_DepartedStaysGone ==
    \A c \in Clients : \A u \in departed[c] : TransportsClosed(c, u) /\ Unregistered(c, u)

\* C13, the registries alone
C13_DepartedStaysUnregistered ==
    \A c \in Clients : \A u \in departed[c] : Unregistered(c, u)

\* Transport t was closed while one of its negotiation steps was outstanding
ClosedMidStep(t) == pcs[t].conn = "closed" /\ pcs[t].cut

\* C14: a transport closed by leaveCall or user_left with a negotiation step
\* outstanding takes no further step: its state stays as it is, no offer or
\* answer made by it is sent, and a change of the owner's registries or of the
\* errors shown to the owner is the work of a frame, of a leave or of another
\* transport.
C14_ClosedSessionStaysSilent ==
    [][\A t \in PcIds :
          pcs[t].conn = "closed" =>
             LET c == pcs[t].owner
             IN /\ pcs'[t] = pcs[t]
                /\ \A i \in 1..Len(out') : out'[i].msg.data.from # t
                /\ (\/ peerConnections'[c] # peerConnections[c]
                    \/ participants'[c] # participants[c]
                    \/ remoteStreams'[c] # remoteStreams[c]
                    \/ errors'[c] # errors[c]) =>
                      \/ Consumes(c)
                      \/ /\ peerConnections'[c] = LeavePeerConnections(c)
                         /\ participants'[c] = LeaveParticipants(c)
                         /\ remoteStreams'[c] = LeaveRemoteStreams(c)
                      \/ \E t2 \in PcIds \ {t} : ~pcs[t2].closed /\ pcs'[t2] # pcs[t2]]_vars

\* A session of c was closed with a step outstanding, by user_left or by leaveCall
C14_ClosedWithStepOutstanding ==
    \E t \in PcIds :
       /\ ClosedMidStep(t)
       /\ peerConnections[pcs[t].owner][pcs[t].peer] = 0
       /\ \/ pcs[t].peer \in departed[pcs[t].owner]
          \/ leftAt[pcs[t].owner] # "no"
       /\ handled = NoFrame

\* ------------------------------------------- specifications of the media
\* The frames of the hub about the peers that come and go
MediaFrames(c) == {m \in HubFrames(c) : m.type \in {"user_joined", "user_left"}}

\* One client with its mute button: the join, the socket and its loss, peers
\* joining and leaving
NextMute ==
    \/ \E c \in room : InitializeCall(c)
    \/ \E c \in room : MediaResolved(c)
    \/ \E c \in room, s \in SockIds : SocketOpen(c, s)
    \/ \E c \in room, s \in SockIds : SocketEnds(c, s)
    \/ \E c \in room : LeaveCall(c)
    \/ \E c \in room : \E m \in MediaFrames(c) : HubSends(c, m)
    \/ \E c \in room : ReceiveUserJoined(c)
    \/ \E c \in room : ReceiveUserLeft(c)
    \/ \E c \in room : ToggleMute(c)

SpecMute == Init /\ [][NextMute]_vars

\* One client with its screen share on a channel that stays up: the join,
\* peers joining and leaving, the share button, the picker and the end of a
\* screen track
NextShare ==
    \/ \E c \in room : InitializeCall(c)
    \/ \E c \in room : MediaResolved(c)
    \/ \E c \in room, s \in SockIds : SocketOpen(c, s)
    \/ \E c \in room : \E m \in MediaFrames(c) : HubSends(c, m)
    \/ \E c \in room : ReceiveUserJoined(c)
    \/ \E c \in room : ReceiveUserLeft(c)
    \/ \E t \in PcIds : ChainStep(t)
    \/ \E c \in room : ToggleScreenShare(c)
    \/ \E c \in room : DisplayResolved(c)
    \/ \E c \in room : DisplayRejected(c)
    \/ \E c \in room : ScreenTrackEnded(c)

SpecShare == Init /\ [][NextShare]_vars

\* This step is a call of toggleMute by c
Mutes(c) == media'[c].toggles = media[c].toggles + 1

\* C15: a call of toggleMute that finds the audio track sends exactly one
\* user_action, mute when the track is now disabled and unmute when it is
\* enabled, sends nothing else and leaves every session and transport as it is.
C15_ToggleSendsOneUserAction ==
    [][\A c \in Clients :
          (Mutes(c) /\ localStream[c] # "none") =>
             /\ Len(out') = 1
             /\ out'[1].msg = UserAction(c, IF media'[c].audioEnabled THEN "unmute" ELSE "mute")
             /\ pcs' = pcs /\ peerConnections' = peerConnections /\ nextPc' = nextPc]_vars

\* C15, the part about sessions: toggleMute sends no offer and touches no session
C15_ToggleLeavesSessions ==
    [][\A c \in Clients :
          Mutes(c) =>
             /\ \A i \in 1..Len(out') : out'[i].msg.type = "user_action"
             /\ pcs' = pcs /\ peerConnections' = peerConnections /\ nextPc' = nextPc]_vars

\* This step is the start of a screen share of c, or a stop of it
StartsShare(c) == media'[c].screenTracks = media[c].screenTracks + 1
StopsShare(c) ==
    \/ media[c].isScreenSharing /\ ~media'[c].isScreenSharing
    \/ media'[c].screenTracks = media[c].screenTracks - 1

\* C16: the start of a screen share puts the screen track on every session in
\* the registry and a stop, by the button or by the end of a screen track,
\* puts the camera track back on every one of them and clears isScreenSharing;
\* both change nothing else of a transport, create none and send nothing.
C16_ShareReplacesTrackEverywhere ==
    [][\A c \in Clients :
          (StartsShare(c) \/ StopsShare(c)) =>
             /\ \A u \in Sessions(c) :
                   pcs'[peerConnections[c][u]].video =
                      IF StartsShare(c) THEN "screen" ELSE "camera"
             /\ media'[c].isScreenSharing = StartsShare(c)
             /\ \A t \in PcIds : pcs'[t] = [pcs[t] EXCEPT !.video = pcs'[t].video]
             /\ peerConnections' = peerConnections /\ nextPc' = nextPc
             /\ out' = <<>>]_vars

\* A share was started with a session in the registry and stopped again: the
\* session is back on the camera track
C16_SharedAndRestored ==
    \E c \in Clients : \E u \in Sessions(c) :
       /\ media[c].restored > 0 /\ ~media[c].isScreenSharing
       /\ pcs[peerConnections[c][u]].video = "camera"
       /\ ~pcs[peerConnections[c][u]].closed

\* C17: while isScreenSharing is true, every session in the registry sends the
\* screen track, the sessions created after the share started included.
C17_SharingSendsScreenEverywhere ==
    \A c \in Clients :
       media[c].isScreenSharing =>
          \A u \in Sessions(c) : pcs[peerConnections[c][u]].video = "screen"

\* C18: a webrtc_signal whose sender is the local user is dropped when it is
\* taken from the socket: no transport, session or participant is created or
\* changed, nothing is queued on a transport, nothing is sent and no error is
\* shown.
C18_OwnSignalDropped ==
    [][\A c \in Clients :
          (Consumes(c) /\ handled'.type = "webrtc_signal" /\ handled'.sender_user_id = c) =>
             /\ pcs' = pcs /\ nextPc' = nextPc
             /\ peerConnections' = peerConnections
             /\ participants' = participants
             /\ remoteStreams' = remoteStreams
             /\ errors' = errors
             /\ sockets' = sockets
             /\ out' = <<>>]_vars

\* A signal of the local user has just been taken from the socket
C18_OwnSignalHandled ==
    \E c \in Clients :
       /\ handled.type = "webrtc_signal" /\ handled.sender_user_id = c
       /\ handled.target_user_id = c
       /\ peerConnections[c][c] = 0

\* ---------------------------------------------------------- corrupt frames
\* One client on a hub that also sends corrupt frames, between peers that
\* join and leave
NextCorrupt ==
    \/ \E c \in room : InitializeCall(c)
    \/ \E c \in room : MediaResolved(c)
    \/ \E c \in room, s \in SockIds : SocketOpen(c, s)
    \/ \E c \in room : \E m \in CorruptFrames(c) \cup MediaFrames(c) : HubSends(c, m)
    \/ \E c \in room : ReceiveUnparseable(c)
    \/ \E c \in room : ReceiveUserJoined(c)
    \/ \E c \in room : ReceiveUserLeft(c)
    \/ \E c \in room : ReceiveParticipantsList(c)
    \/ \E t \in PcIds : ChainStep(t)

SpecCorrupt == Init /\ [][NextCorrupt]_vars

\* C19: a corrupt frame is dropped: taking it from the socket changes neither
\* the participant registry nor the session registry, creates no transport,
\* sends nothing, and leaves the socket open for the frames that follow.
C19_CorruptFrameDropped ==
    [][\A c \in Clients :
          (Consumes(c) /\ handled'.lacks # {}) =>
             /\ participants' = participants
             /\ peerConnections' = peerConnections
             /\ pcs' = pcs /\ nextPc' = nextPc
             /\ out' = <<>>
             /\ sockets' = sockets /\ socket' = socket]_vars

\* C19 for the frames whose handling throws into the catch of onmessage
C19_ThrowingFrameDropped ==
    [][\A c \in Clients :
          (Consumes(c) /\ Throws(handled')) =>
             /\ participants' = participants
             /\ peerConnections' = peerConnections
             /\ pcs' = pcs /\ nextPc' = nextPc
             /\ out' = <<>>
             /\ sockets' = sockets /\ socket' = socket]_vars

\* In this step a negotiation operation of transport t is rejected
FailsStep(t) ==
    /\ pcs[t].chain # <<>> /\ ~pcs[t].closed
    /\ ~ApplyOp(pcs[t], t, Head(pcs[t].chain), platform[pcs[t].owner] = "rollback").ok
    /\ pcs'[t] = [pcs[t] EXCEPT !.chain = Tail(@)]

\* In this step transport t enters 'failed' (and is closed at once when its
\* handler reconnects)
FailsTransport(t) ==
    /\ ~pcs[t].closed /\ pcs[t].conn # "failed"
    /\ \/ pcs'[t].conn = "failed"
       \/ pcs'[t].closed /\ nextPc' = nextPc + 1

\* C20: a rejected negotiation operation of one peer's transport, or the
\* transport entering 'failed', shows no error to the user and leaves the
\* participants, sessions and transports of every other peer as they are.
C20_PeerFailureStaysLocal ==
    [][\A t \in PcIds :
          (FailsStep(t) \/ FailsTransport(t)) =>
             LET c == pcs[t].owner
                 u == pcs[t].peer
             IN /\ errors' = errors
                /\ \A v \in Users \ {u} :
                      /\ peerConnections'[c][v] = peerConnections[c][v]
                      /\ participants'[c][v] = participants[c][v]
                /\ \A t2 \in PcIds :
                      (pcs[t2].origin # "free" /\ pcs[t2].peer # u) => pcs'[t2] = pcs[t2]]_vars

\* C20 without the error: the failure of one peer changes no other peer
C20_PeerFailureSparesOthers ==
    [][\A t \in PcIds :
          (FailsStep(t) \/ FailsTransport(t)) =>
             LET c == pcs[t].owner
                 u == pcs[t].peer
             IN /\ \A v \in Users \ {u} :
                      /\ peerConnections'[c][v] = peerConnections[c][v]
                      /\ participants'[c][v] = participants[c][v]
                /\ \A t2 \in PcIds :
                      (pcs[t2].origin # "free" /\ pcs[t2].peer # u) => pcs'[t2] = pcs[t2]]_vars

\* ------------------------------------------------ the per-peer retry
\* The transport of an established outbound session: the local offer was
\* answered and the transport is connected
Established(c, u, t) ==
    [FreePc EXCEPT !.owner = c, !.peer = u, !.origin = "out", !.tracks = TRUE,
                   !.video = "camera", !.sig = "stable", !.localDesc = Offer(t),
                   !.remoteDesc = Answer(0, t), !.conn = "connected"]

\* Client A is in the call with an established outbound session to peer B
InitRetry ==
    /\ localStream = [c \in Clients |-> IF c = "A" THEN "live" ELSE "none"]
    /\ remoteStreams = [c \in Clients |-> {}]
    /\ peerConnections = [c \in Clients |->
                             [u \in Users |-> IF c = "A" /\ u = "B" THEN 1 ELSE 0]]
    /\ socket = [c \in Clients |-> IF c = "A" THEN 1 ELSE 0]
    /\ reconnectAttempts = [c \in Clients |-> 0]
    /\ heartbeatInterval = [c \in Clients |-> c = "A"]
    /\ participants =
          [c \in Clients |->
              IF c = "A"
              THEN updateParticipantConnectionStatus(
                      addParticipant(addParticipant([u \in Users |-> NoParticipant], c, TRUE),
                                     "B", FALSE),
                      "B", "connected")
              ELSE [u \in Users |-> NoParticipant]]
    /\ initPc = [c \in Clients |-> IF c = "A" THEN "done" ELSE "idle"]
    /\ pcs = [t \in PcIds |-> IF t = 1 THEN Established("A", "B", 1) ELSE FreePc]
    /\ nextPc = 2
    /\ sockets = [s \in SockIds |-> IF s = 1 THEN InCall("A", s) ELSE FreeSock]
    /\ nextSock = 2
    /\ hbTimers = [c \in Clients |-> IF c = "A" THEN 1 ELSE 0]
    /\ reconnectTimers = [c \in Clients |-> <<>>]
    /\ errors = [c \in Clients |-> NoErrors]
    /\ page = [c \in Clients |-> "live"]
    /\ inbox = [c \in Clients |-> <<>>]
    /\ out = <<>>
    /\ envCount = 0
    /\ leftAt = [c \in Clients |-> "no"]
    /\ sinceOpen = [c \in Clients |-> 0]
    /\ early = [c \in Clients |-> [u \in Users |-> <<>>]]
    /\ handled = NoFrame
    /\ departed = [c \in Clients |-> {}]
    /\ media = [c \in Clients |-> NoMedia]
    /\ room = {"A"}
    /\ platform \in {[c \in Clients |-> x] : x \in {"rollback", "throw"}}

\* The frames of the hub about the members of the room
RetryFrames(c) ==
    {m \in HubFrames(c) : m.type \in {"user_joined", "user_left", "participants_list"}}

NextRetry ==
    \/ \E c \in room : \E m \in RetryFrames(c) : HubSends(c, m)
    \/ \E c \in room : ReceiveUserJoined(c)
    \/ \E c \in room : ReceiveUserLeft(c)
    \/ \E c \in room : ReceiveParticipantsList(c)
    \/ \E t \in PcIds : ChainStep(t)
    \/ \E t \in PcIds : RemoteTrack(t)
    \/ \E t \in PcIds : TransportFailed(t)

SpecRetry == InitRetry /\ [][NextRetry]_vars

\* The state of InitRetry, as the join and one negotiation leave it
RetryStateReached ==
    /\ peerConnections["A"]["B"] = 1 /\ pcs[1] = Established("A", "B", 1)
    /\ participants["A"]["B"].connectionState = "connected"
    /\ nextPc = 2 /\ inbox["A"] = <<>> /\ remoteStreams["A"] = {}

\* C21: when a transport of client c for peer X enters 'failed' and X is not
\* in the participant registry of c, no transport is created and no session
\* is stored for X (so that no offer follows).
C21_RetryOnlyForParticipants ==
    [][\A t \in PcIds :
          (FailsTransport(t) /\ participants[pcs[t].owner][pcs[t].peer] = NoParticipant) =>
             /\ nextPc' = nextPc
             /\ peerConnections'[pcs[t].owner][pcs[t].peer] = 0]_vars

\* Client c has no socket and none of the frames just sent is its own
NothingOpened(c) ==
    /\ socket[c] = 0
    /\ \A s \in SockIds : sockets[s].owner # c
    /\ \A i \in 1..Len(out) : sockets[out[i].sock].owner # c

\* C22: the join takes the media first, then registers the local participant
\* and creates the socket: the first socket of a client is created with the
\* stream held and the local participant registered, still connecting and with
\* nothing sent (the handshake waits for onopen).  A join whose media could not be had has shown the join
\* error, and has registered no participant, created no socket and sent
\* nothing.
C22_JoinNeedsMedia ==
    /\ [](\A c \in Clients :
             /\ (localStream[c] = "none" /\ initPc[c] # "failed") => NothingOpened(c)
             /\ (localStream[c] = "none" /\ initPc[c] = "failed") =>
                   /\ errors[c].joinFailed = 1
                   /\ Keys(c) = {}
                   /\ NothingOpened(c))
    /\ [][\A c \in Clients :
             (socket[c] = 0 /\ socket'[c] # 0) =>
                /\ localStream'[c] = "live"
                /\ participants'[c][c].isLocal
                /\ sockets'[socket'[c]].state = "CONNECTING"
                /\ out' = <<>>]_vars

\* The media could not be had and the join has failed
C22_JoinFailedWithoutMedia ==
    \E c \in Clients :
       /\ initPc[c] = "failed" /\ localStream[c] = "none"
       /\ errors[c].joinFailed = 1 /\ page[c] = "live"

\* ------------------------------------------------ the wait of the join
\* The join and the socket behind it.  What the page itself schedules does
\* happen: getUserMedia settles and a setTimeout callback that is due runs.
\* Whether and when the socket opens, fails or closes is up to the network.
NextJoin ==
    \/ \E c \in room : InitializeCall(c)
    \/ \E c \in room : MediaResolved(c)
    \/ \E c \in room : MediaRejected(c)
    \/ \E c \in room, s \in SockIds : SocketOpen(c, s)
    \/ \E c \in room, s \in SockIds : SocketEnds(c, s)
    \/ \E c \in room, i \in 1..MaxSock : TimerFires(c, i)

SpecJoin ==
    /\ Init /\ [][NextJoin]_vars
    /\ WF_vars(\E c \in room : InitializeCall(c))
    /\ WF_vars(\E c \in room : MediaResolved(c) \/ MediaRejected(c))
    /\ WF_vars(\E c \in room, i \in 1..MaxSock : TimerFires(c, i))

\* C23: a join that waits for its socket does not wait forever: initializeCall
\* leaves its await of connectWebSocket, by the open or by a failure, whatever
\* the socket does.
C23_JoinWaitEnds ==
    \A c \in Clients : (initPc[c] = "awaitSocket") ~> (initPc[c] \in {"done", "failed"})

\* ------------------------------------------------ the flags of the peers
\* One client among peers that join, leave and report their mute and video
\* buttons
NextFlags ==
    \/ \E c \in room : InitializeCall(c)
    \/ \E c \in room : MediaResolved(c)
    \/ \E c \in room, s \in SockIds : SocketOpen(c, s)
    \/ \E c \in room : \E m \in MediaFrames(c) \cup ActionFrames(c) : HubSends(c, m)
    \/ \E c \in room : ReceiveUserJoined(c)
    \/ \E c \in room : ReceiveUserLeft(c)
    \/ \E c \in room : ReceiveUserAction(c)
    \/ \E t \in PcIds : ChainStep(t)

SpecFlags == Init /\ [][NextFlags]_vars

\* C24: a user_action changes at most the isMuted and isVideoEnabled flags of
\* the participant it names, and nothing when the id is not registered; every
\* other participant, the sessions and the transports stay as they are and
\* nothing is sent.
C24_UserActionChangesFlagsOnly ==
    [][\A c \in Clients :
          (Consumes(c) /\ handled'.type = "user_action") =>
             LET u == handled'.user_id
             IN /\ \A v \in Users \ {u} : participants'[c][v] = participants[c][v]
                /\ participants'[c][u] =
                      [participants[c][u] EXCEPT
                          !.isMuted = participants'[c][u].isMuted,
                          !.isVideoEnabled = participants'[c][u].isVideoEnabled]
                /\ participants[c][u] = NoParticipant => participants'[c][u] = NoParticipant
                /\ pcs' = pcs /\ peerConnections' = peerConnections /\ nextPc' = nextPc
                /\ remoteStreams' = remoteStreams /\ errors' = errors
                /\ out' = <<>>]_vars

\* A mute of a registered peer has been handled with its session in progress
C24_PeerMuted ==
    \E c \in Clients :
       /\ handled = UserAction("B", "mute")
       /\ participants[c]["B"].isMuted
       /\ peerConnections[c]["B"] # 0

\* ------------------------------------------- sending on a socket not OPEN
\* socketRef.current?.send(...) of the VideoArea component, which does not
\* look at readyState: WebSocket.send throws InvalidStateError on a socket
\* that is CONNECTING, transmits on an OPEN one and discards the data on a
\* CLOSING or CLOSED one
socketSend(sock, socks, m) ==
    [frames |-> IF sock # 0 /\ socks[sock].state = "OPEN"
                THEN <<[sock |-> sock, msg |-> m]>> ELSE <<>>,
     threw |-> sock # 0 /\ socks[sock].state = "CONNECTING"]

\* The sockets one component creates
MaxJoin == 2

\* joinRoom of a component that has joined already: nothing in joinRoom
\* looks at the socket it holds, the new socket replaces it in socketRef and
\* the old one keeps its handlers
AreaJoinAgain(c) ==
    /\ Live(c) /\ initPc[c] # "idle" /\ socket[c] # 0 /\ nextSock <= MaxJoin
    /\ localStream' = [localStream EXCEPT ![c] = "live"]
    /\ sockets' = [sockets EXCEPT ![nextSock] =
                      [owner |-> c, state |-> "CONNECTING", awaiter |-> "",
                       settled |-> FALSE, code |-> 0]]
    /\ socket' = [socket EXCEPT ![c] = nextSock]
    /\ nextSock' = nextSock + 1
    /\ initPc' = [initPc EXCEPT ![c] = "awaitSocket"]
    /\ Emit(<<>>, inbox)
    /\ UNCHANGED <<remoteStreams, peerConnections, reconnectAttempts, heartbeatInterval,
                   participants, pcs, nextPc, hbTimers, reconnectTimers, errors, page,
                   room, platform, envCount, leftAt, sinceOpen, early, media>>

\* onopen of socket s of the component: both frames go to socketRef.current,
\* which is s only while no later joinRoom has replaced it; a send that
\* throws ends the handler
AreaOnOpen(c, s) ==
    LET socks == [sockets EXCEPT ![s].state = "OPEN", ![s].settled = TRUE]
        first == socketSend(socket[c], socks, UserInfo(c))
        second == socketSend(socket[c], socks, GetParticipants)
    IN
    /\ Live(c) /\ sockets[s].owner = c /\ sockets[s].state = "CONNECTING"
    /\ sockets' = socks
    /\ initPc' = [initPc EXCEPT ![c] = IF socket[c] = s THEN "done" ELSE @]
    /\ errors' = [errors EXCEPT ![c].uncaught = @ + (IF first.threw THEN 1 ELSE 0)]
    /\ Emit(IF first.threw THEN <<>> ELSE first.frames \o second.frames, inbox)
    /\ UNCHANGED <<localStream, remoteStreams, peerConnections, socket, reconnectAttempts,
                   heartbeatInterval, participants, pcs, nextPc, nextSock, hbTimers,
                   reconnectTimers, page, room, platform, envCount, leftAt, sinceOpen,
                   early, media>>

\* An awaited operation of a transport of the component settles: the handler
\* runs on to its next await, and after setLocalDescription to its
\* socketRef.current?.send; the component catches nothing
AreaChainStep(t) ==
    LET p == pcs[t]
        c == p.owner
        op == Head(p.chain)
        r == ApplyOp(p, t, op, platform[c] = "rollback")
        signals == IF r.ok THEN SignalAfter(op, r.pc, t) ELSE <<>>
        sent == IF signals = <<>> THEN [frames |-> <<>>, threw |-> FALSE]
                ELSE socketSend(socket[c], sockets, signals[1])
    IN
    /\ p.origin # "free" /\ ~p.closed /\ p.chain # <<>> /\ Live(c)
    /\ pcs' = [pcs EXCEPT ![t] =
                  [r.pc EXCEPT !.chain = Tail(p.chain) \o (IF r.ok THEN NextOps(op) ELSE <<>>),
                               !.dropped = @ + (IF signals # <<>> /\ sent.frames = <<>>
                                                THEN 1 ELSE 0)]]
    /\ errors' = [errors EXCEPT ![c].uncaught = @ + (IF sent.threw THEN 1 ELSE 0)]
    /\ Emit(sent.frames, inbox)
    /\ UNCHANGED <<localStream, remoteStreams, peerConnections, socket, reconnectAttempts,
                   heartbeatInterval, participants, initPc, nextPc, sockets, nextSock,
                   hbTimers, reconnectTimers, page, room, platform, envCount, leftAt,
                   sinceOpen, early, media>>

\* onicecandidate of a transport of the component, with a candidate
AreaIceCandidate(t) ==
    LET p == pcs[t]
        c == p.owner
        sent == socketSend(socket[c], sockets,
                           WebRTCSignal("ice_candidate", Candidate(t, p.gathered + 1),
                                        p.peer, c))
    IN
    /\ p.origin # "free" /\ ~p.closed /\ Live(c)
    /\ p.localDesc # NoDesc /\ p.gathered < MaxCand
    /\ pcs' = [pcs EXCEPT ![t].gathered = @ + 1,
                          ![t].dropped = @ + (IF sent.frames = <<>> THEN 1 ELSE 0)]
    /\ errors' = [errors EXCEPT ![c].uncaught = @ + (IF sent.threw THEN 1 ELSE 0)]
    /\ Emit(sent.frames, inbox)
    /\ UNCHANGED <<localStream, remoteStreams, peerConnections, socket, reconnectAttempts,
                   heartbeatInterval, participants, initPc, nextPc, sockets, nextSock,
                   hbTimers, reconnectTimers, page, room, platform, envCount, leftAt,
                   sinceOpen, early, media>>

\* The platform ends socket s of the component: onclose sets a status text
AreaSocketEnds(c, s) ==
    /\ Live(c) /\ sockets[s].owner = c /\ sockets[s].state \in {"CONNECTING", "OPEN"}
    /\ sockets' = [sockets EXCEPT ![s].state = "CLOSED", ![s].settled = TRUE]
    /\ Emit(<<>>, [inbox EXCEPT ![c] = IF socket[c] = s THEN <<>> ELSE @])
    /\ UNCHANGED <<localStream, remoteStreams, peerConnections, socket, reconnectAttempts,
                   heartbeatInterval, participants, initPc, pcs, nextPc, nextSock, hbTimers,
                   reconnectTimers, errors, page, room, platform, envCount, leftAt,
                   sinceOpen, early, media>>

\* The offers of the hub
OfferFrames(c) ==
    {m \in HubFrames(c) : m.type = "webrtc_signal" /\ m.signal_type = "offer"}

NextAreaSend ==
    \/ \E c \in room : AreaJoinRoom(c)
    \/ \E c \in room : AreaJoinAgain(c)
    \/ \E c \in room, s \in SockIds : AreaOnOpen(c, s)
    \/ \E c \in room, s \in SockIds : AreaSocketEnds(c, s)
    \/ \E c \in room : \E m \in OfferFrames(c) : HubSends(c, m)
    \/ \E c \in room : AreaReceiveSignal(c)
    \/ \E t \in PcIds : AreaChainStep(t)
    \/ \E t \in PcIds : AreaIceCandidate(t)

\* The VideoArea component of one client and what it sends
SpecAreaSend == Init /\ [][NextAreaSend]_vars

\* The code of client c calls send in this step while its socket is absent
\* or not OPEN: a signal of one of its transports is due, or one of its
\* sockets opens
SendsNotOpen(c) ==
    /\ socket[c] = 0 \/ sockets[socket[c]].state # "OPEN"
    /\ \/ \E t \in PcIds : pcs[t].owner = c /\ pcs'[t].dropped > pcs[t].dropped
       \/ \E s \in SockIds : /\ sockets[s].owner = c /\ socket[c] # s
                             /\ sockets[s].state = "CONNECTING"
                             /\ sockets'[s].state = "OPEN"

\* C25: a send while the socket is absent or not OPEN is a no-op: the step
\* transmits nothing, raises and reports no error, buffers nothing on the
\* socket and leaves the socket, the registry and the sessions as they were
C25_SendWhileNotOpenIsNoOp ==
    [][\A c \in Clients :
          SendsNotOpen(c) =>
             /\ out' = <<>>
             /\ errors'[c] = errors[c]
             /\ socket'[c] = socket[c] /\ nextSock' = nextSock
             /\ \A s \in SockIds : sockets[s].owner = c /\ sockets[s].state # "CONNECTING"
                                      => sockets'[s] = sockets[s]
             /\ peerConnections'[c] = peerConnections[c]
             /\ participants'[c] = participants[c]]_vars

\* Every frame that leaves a client leaves on a socket that is OPEN
C25_FramesOnlyOnOpenSocket ==
    \A i \in 1..Len(out) : sockets[out[i].sock].state = "OPEN"

\* ------------------------------------------------- the envelope on the wire
\* JavaScript values, as far as an envelope holds them.  A platform object is
\* an RTCIceCandidate or RTCSessionDescription, whose toJSON gives its
\* attributes; m is the sequence of <<key, value>> of an object.
JsUndefined == [t |-> "undefined", v |-> "", m |-> <<>>]
JsNull == [t |-> "null", v |-> "", m |-> <<>>]
JsString(s) == [t |-> "string", v |-> s, m |-> <<>>]
JsNumber(n) == [t |-> "number", v |-> n, m |-> <<>>]
JsObject(members) == [t |-> "object", v |-> "", m |-> members]
JsPlatform(members) == [t |-> "platform", v |-> "", m |-> members]

\* obj[key] or the destructuring of key from obj
Get(obj, key) ==
    LET at == {i \in 1..Len(obj.m) : obj.m[i][1] = key}
    IN IF at = {} THEN JsUndefined
       ELSE obj.m[CHOOSE i \in at : \A j \in at : j <= i][2]

Tok(k, s) == [k |-> k, s |-> s]

RECURSIVE JSONstringify(_)
RECURSIVE StringifyMembers(_)

\* JSON.stringify that writes an undefined member as null, as it does for
\* the elements of an array
StringifyMembersAsNull(m) ==
    IF m = <<>> THEN <<>>
    ELSE <<Tok("key", m[1][1])>>
         \o (IF m[1][2].t = "undefined" THEN <<Tok("null", "")>> ELSE JSONstringify(m[1][2]))
         \o StringifyMembers(Tail(m))

\* JSON.stringify of the members of an object: a member whose value is
\* undefined is left out
StringifyMembers(m) ==
    IF m = <<>> THEN <<>>
    ELSE (IF m[1][2].t = "undefined" THEN <<>>
          ELSE <<Tok("key", m[1][1])>> \o JSONstringify(m[1][2]))
         \o StringifyMembers(Tail(m))

\* JSON.stringify, the text as its sequence of tokens
JSONstringify(value) ==
    CASE value.t = "string" -> <<Tok("string", value.v)>>
      [] value.t = "number" -> <<Tok("number", value.v)>>
      [] value.t = "null" -> <<Tok("null", "")>>
      [] value.t \in {"object", "platform"} ->
            <<Tok("{", "")>> \o StringifyMembers(value.m) \o <<Tok("}", "")>>

RECURSIVE ParseValue(_)
RECURSIVE ParseMembers(_, _)

\* The members of an object up to its closing brace
ParseMembers(toks, acc) ==
    IF Head(toks).k = "}" THEN [value |-> JsObject(acc), rest |-> Tail(toks)]
    ELSE LET r == ParseValue(Tail(toks))
         IN ParseMembers(r.rest, Append(acc, <<Head(toks).s, r.value>>))

ParseValue(toks) ==
    CASE Head(toks).k = "string" -> [value |-> JsString(Head(toks).s), rest |-> Tail(toks)]
      [] Head(toks).k = "number" -> [value |-> JsNumber(Head(toks).s), rest |-> Tail(toks)]
      [] Head(toks).k = "null" -> [value |-> JsNull, rest |-> Tail(toks)]
      [] Head(toks).k = "{" -> ParseMembers(Tail(toks), <<>>)

\* JSON.parse of a text that JSON.stringify wrote
JSONparse(text) == ParseValue(text).value

\* The object sendWebRTCSignal hands to sendMessage
Envelope(signalType, data, targetUserId, userId) ==
    JsObject(<<<<"type", JsString("webrtc_signal")>>, <<"signal_type", signalType>>,
               <<"data", data>>, <<"target_user_id", targetUserId>>,
               <<"sender_user_id", userId>>>>)

\* What handleWebSocketMessage and handleWebRTCSignal read from the message
ReadSignal(message) ==
    [type |-> Get(message, "type"), signal_type |-> Get(message, "signal_type"),
     data |-> Get(message, "data"), sender_user_id |-> Get(message, "sender_user_id"),
     target_user_id |-> Get(message, "target_user_id")]

\* The payloads: what createOffer and createAnswer resolve to, the candidate
\* of onicecandidate, and the values a caller may pass besides
Payloads ==
    {JsObject(<<<<"type", JsString(k)>>, <<"sdp", JsString("v=0")>>>>) : k \in {"offer", "answer"}}
    \cup {JsPlatform(<<<<"type", JsString("offer")>>, <<"sdp", JsString("v=0")>>>>)}
    \cup {JsPlatform(<<<<"candidate", JsString("candidate:1")>>, <<"sdpMid", mid>>,
                       <<"sdpMLineIndex", JsNumber("0")>>, <<"usernameFragment", JsNull>>>>) :
             mid \in {JsNull, JsString("0")}}
    \cup {JsObject(<<<<"type", JsString("offer")>>, <<"sdp", JsUndefined>>>>),
          JsNull, JsUndefined}

SignalTypes == {JsString(k) : k \in {"offer", "answer", "ice_candidate"}}
SenderIds == {JsString(u) : u \in {"A", "B", ""}}
TargetIds == {JsString(u) : u \in {"A", "B"}} \cup {JsUndefined, JsNull}

\* Client A holds an open socket and is about to send one envelope, which
\* `out` keeps as the object; B is the client that receives it
InitWire ==
    /\ localStream = [c \in Clients |-> "live"]
    /\ remoteStreams = [c \in Clients |-> {}]
    /\ peerConnections = [c \in Clients |-> [u \in Users |-> 0]]
    /\ socket = [c \in Clients |-> IF c = "A" THEN 1 ELSE 2]
    /\ reconnectAttempts = [c \in Clients |-> 0]
    /\ heartbeatInterval = [c \in Clients |-> TRUE]
    /\ participants = [c \in Clients |-> [u \in Users |-> NoParticipant]]
    /\ initPc = [c \in Clients |-> "done"]
    /\ pcs = [t \in PcIds |-> FreePc]
    /\ nextPc = 1
    /\ sockets = [s \in SockIds |->
                     IF s \in {1, 2}
                     THEN [owner |-> IF s = 1 THEN "A" ELSE "B", state |-> "OPEN",
                           awaiter |-> "", settled |-> TRUE, code |-> 0]
                     ELSE FreeSock]
    /\ nextSock = 3
    /\ hbTimers = [c \in Clients |-> 1]
    /\ reconnectTimers = [c \in Clients |-> <<>>]
    /\ errors = [c \in Clients |-> NoErrors]
    /\ page = [c \in Clients |-> "live"]
    /\ inbox = [c \in Clients |-> <<>>]
    /\ out \in {<<[sock |-> 1, msg |-> Envelope(st, data, target, sender)]>> :
                   st \in SignalTypes, data \in Payloads, target \in TargetIds,
                   sender \in SenderIds}
    /\ room = {"A", "B"}
    /\ platform = [c \in Clients |-> "throw"]
    /\ envCount = 0
    /\ leftAt = [c \in Clients |-> "no"]
    /\ sinceOpen = [c \in Clients |-> 0]
    /\ early = [c \in Clients |-> [u \in Users |-> <<>>]]
    /\ handled = ReadSignal(JsUndefined)
    /\ departed = [c \in Clients |-> {}]
    /\ media = [c \in Clients |-> NoMedia]

\* sendMessage of A: the text of the envelope travels to B's socket
WireSend ==
    /\ out # <<>> /\ inbox["B"] = <<>> /\ handled = ReadSignal(JsUndefined)
    /\ sockets[out[1].sock].state = "OPEN"
    /\ inbox' = [inbox EXCEPT !["B"] = <<JSONstringify(out[1].msg)>>]
    /\ UNCHANGED <<localStream, remoteStreams, peerConnections, socket, reconnectAttempts,
                   heartbeatInterval, participants, initPc, pcs, nextPc, sockets, nextSock,
                   hbTimers, reconnectTimers, errors, page, out, room, platform, envCount,
                   leftAt, sinceOpen, early, handled, departed, media>>

\* onmessage of B: the text is parsed and handleWebRTCSignal reads the message
WireOnMessage ==
    /\ inbox["B"] # <<>>
    /\ handled' = ReadSignal(JSONparse(Head(inbox["B"])))
    /\ inbox' = [inbox EXCEPT !["B"] = Tail(@)]
    /\ UNCHANGED <<localStream, remoteStreams, peerConnections, socket, reconnectAttempts,
                   heartbeatInterval, participants, initPc, pcs, nextPc, sockets, nextSock,
                   hbTimers, reconnectTimers, errors, page, out, room, platform, envCount,
                   leftAt, sinceOpen, early, departed, media>>

NextWire == WireSend \/ WireOnMessage

\* One envelope from sendWebRTCSignal of A to handleWebRTCSignal of B
SpecWire == InitWire /\ [][NextWire]_vars

\* Two payloads agree field for field: both are no objects and equal, or both
\* are objects in which every key reads the same
SamePayload(a, b) ==
    IF a.m = <<>> /\ b.m = <<>> THEN a = b
    ELSE /\ a.t \in {"object", "platform"} /\ b.t \in {"object", "platform"}
         /\ \A key \in {"type", "sdp", "candidate", "sdpMid", "sdpMLineIndex",
                        "usernameFragment"} : Get(a, key) = Get(b, key)

\* B has read the envelope A sent
Received == inbox["B"] = <<>> /\ handled # ReadSignal(JsUndefined)

\* C26: the envelope that sendWebRTCSignal builds and sendMessage serializes,
\* parsed by onmessage and read by handleWebRTCSignal, yields the signal type,
\* the sender id, the target id and the payload that were sent
C26_EnvelopeRoundTrip ==
    Received =>
       LET sent == ReadSignal(out[1].msg)
       IN /\ handled.type = JsString("webrtc_signal")
          /\ handled.signal_type = sent.signal_type
          /\ handled.sender_user_id = sent.sender_user_id
          /\ handled.target_user_id = sent.target_user_id
          /\ SamePayload(handled.data, sent.data)

\* An envelope without a target and with a candidate object has arrived
C26_CandidateArrived ==
    /\ Received
    /\ Get(out[1].msg, "target_user_id") = JsUndefined
    /\ Get(out[1].msg, "data").t = "platform"
    /\ handled.data.t = "object"
    /\ Get(handled.data, "candidate") = JsString("candidate:1")

\* The operation at the head of the chain of transport t takes effect in this step
Applies(t) ==
    /\ pcs[t].chain # <<>> /\ ~pcs[t].closed
    /\ \/ pcs'[t].chain = Tail(pcs[t].chain)
       \/ pcs'[t].chain = Tail(pcs[t].chain) \o NextOps(Head(pcs[t].chain))

\* The operations with which the handler of a received signal begins
FirstOfSignal == {"setRemoteOffer", "setRemoteAnswer", "addIceCandidate"}

\* The operations a handler of an earlier signal still has to run on t:
\* those it calls after an await, or has called and not seen settle
Continues(t) ==
    {i \in 2..Len(pcs[t].chain) : pcs[t].chain[i].op \in {"createAnswer", "setLocalAnswer"}}

\* C27: a signal from a peer acts on the transport of that peer only when the
\* handlers of the earlier signals from the peer have run all their steps
C27_SignalsActInArrivalOrder ==
    [][\A t \in PcIds :
          (Applies(t) /\ Head(pcs[t].chain).op \in FirstOfSignal) => Continues(t) = {}]_vars

\* The answers that transport t sends in this step
AnswersSent(t) ==
    {i \in 1..Len(out') : /\ out'[i].msg.type = "webrtc_signal"
                          /\ out'[i].msg.signal_type = "answer"
                          /\ out'[i].msg.data.from = t}

\* The steps that handlers of offers still have to run on the transport
OfferSteps(chain) ==
    Cardinality({i \in 1..Len(chain) :
                    chain[i].op \in {"setRemoteOffer", "createAnswer", "setLocalAnswer"}})

\* C28: for an offer from a peer the answer is created on a transport that
\* carries the local tracks and has an offer of the peer as its remote
\* description; the answer that is sent is the local description and goes to
\* that peer; a handler sends one answer and ends, and handlers begin only
\* with the receipt of an offer, so that no offer is answered twice
C28_OfferAnsweredInOrder ==
    [][\A t \in PcIds :
          /\ (Applies(t) /\ Head(pcs[t].chain).op = "createAnswer"
                /\ pcs'[t].chain = Tail(pcs[t].chain) \o NextOps(Head(pcs[t].chain)))
                => /\ pcs[t].remoteDesc.kind = "offer"
                   /\ pcs[t].tracks
          /\ \A i \in AnswersSent(t) :
                /\ pcs'[t].localDesc = out'[i].msg.data
                /\ pcs'[t].remoteDesc.kind = "offer"
                /\ out'[i].msg.target_user_id = pcs'[t].peer
                /\ out'[i].msg.sender_user_id = pcs'[t].owner
          /\ Cardinality(AnswersSent(t)) <= 1
          /\ AnswersSent(t) # {} =>
                OfferSteps(pcs'[t].chain) = OfferSteps(pcs[t].chain) - 1
          /\ OfferSteps(pcs'[t].chain) > OfferSteps(pcs[t].chain) =>
                /\ OfferSteps(pcs'[t].chain) = OfferSteps(pcs[t].chain) + 1
                /\ handled'.type = "webrtc_signal" /\ handled'.signal_type = "offer"
                /\ handled'.sender_user_id = pcs'[t].peer]_vars

\* The answer to an offer has just been sent from a transport with tracks
C28_AnswerSent ==
    \E t \in PcIds :
       /\ out # <<>> /\ out[1].msg.type = "webrtc_signal" /\ out[1].msg.signal_type = "answer"
       /\ pcs[t].localDesc = out[1].msg.data /\ pcs[t].tracks
       /\ pcs[t].remoteDesc.kind = "offer" /\ pcs[t].sig = "stable"

\* ------------------------------------------------- the quality of the channel
\* Values of now - lastHeartbeat, in ms, around the two thresholds
ElapsedTimes == {0, 29999, 30000, 30001, 59999, 60000, 60001, 90000}

\* checkConnectionQuality: the classification of the elapsed time
checkConnectionQuality(timeSinceLastHeartbeat) ==
    IF timeSinceLastHeartbeat > 60000 THEN "bad"
    ELSE IF timeSinceLastHeartbeat > 30000 THEN "poor"
    ELSE "good"

\* configureVideoTrack: the constraints applied for a quality
configureVideoTrack(connectionQuality) ==
    IF connectionQuality \in {"poor", "bad"} THEN "reduced" ELSE "higher"

\* adaptVideoQuality.  getConnectionStats returns an object keyed by the user
\* ids of the sessions, so stats.bitrate is undefined unless a peer is called
\* "bitrate"; then it is that peer's object, which is less than no number,
\* and the last branch runs.  No branch is reached that calls
\* configureVideoTrack.
adaptVideoQuality(m, hasStream, keys) ==
    IF hasStream /\ "bitrate" \in keys THEN [m EXCEPT !.connectionQuality = "excellent"]
    ELSE m

\* The callback of startHeartbeat, elapsed ms after the last pong: with the
\* socket OPEN it sends a ping and runs checkConnectionQuality, which ends
\* with adaptVideoQuality
HeartbeatCheck(c, elapsed) ==
    /\ Live(c) /\ hbTimers[c] > 0
    /\ Emit(sendMessage(socket[c], sockets, Ping), inbox)
    /\ media' = [media EXCEPT ![c] =
                    IF socket[c] # 0 /\ sockets[socket[c]].state = "OPEN"
                    THEN adaptVideoQuality(
                            [@ EXCEPT !.connectionQuality = checkConnectionQuality(elapsed),
                                      !.sinceHeartbeat = elapsed],
                            localStream[c] = "live", Sessions(c))
                    ELSE @]
    /\ UNCHANGED <<localStream, remoteStreams, peerConnections, socket, reconnectAttempts,
                   heartbeatInterval, participants, initPc, pcs, nextPc, sockets, nextSock,
                   hbTimers, reconnectTimers, errors, page, room, platform, envCount,
                   leftAt, sinceOpen, early>>

NextQuality ==
    \/ \E c \in room : InitializeCall(c)
    \/ \E c \in room : MediaResolved(c)
    \/ \E c \in room, s \in SockIds : SocketOpen(c, s)
    \/ \E c \in room, s \in SockIds : SocketEnds(c, s)
    \/ \E c \in room, i \in 1..MaxSock : TimerFires(c, i)
    \/ \E c \in room, elapsed \in ElapsedTimes : HeartbeatCheck(c, elapsed)

\* One client, its channel and its heartbeat
SpecQuality == Init /\ [][NextQuality]_vars

\* C29: after a check the quality is good when the elapsed time is less than
\* one period of 30000 ms, poor from one period to two periods, one period
\* itself included, and bad above two periods
C29_QualityByElapsedTime ==
    \A c \in Clients :
       LET t == media[c].sinceHeartbeat
       IN t >= 0 =>
             media[c].connectionQuality =
                IF t < 30000 THEN "good" ELSE IF t <= 2 * 30000 THEN "poor" ELSE "bad"

\* The classification as the code draws it: one period itself is still good
C29_QualityAboveThresholds ==
    \A c \in Clients :
       LET t == media[c].sinceHeartbeat
       IN t >= 0 =>
             media[c].connectionQuality =
                IF t <= 30000 THEN "good" ELSE IF t <= 60000 THEN "poor" ELSE "bad"

\* C30: a step in which the quality falls from good to poor or bad applies
\* the reduced constraints to the camera track, a step in which it rises to
\* good again applies the higher ones, and neither touches a transport or
\* sends a signal
C30_QualityChangeAppliesConstraints ==
    [][\A c \in Clients :
          LET q == media[c].connectionQuality
              r == media'[c].connectionQuality
          IN /\ (q = "good" /\ r \in {"poor", "bad"}) =>
                   media'[c].videoConstraints = "reduced"
             /\ (q \in {"poor", "bad"} /\ r = "good") =>
                   media'[c].videoConstraints = "higher"
             /\ q # r =>
                   /\ pcs' = pcs /\ peerConnections' = peerConnections
                   /\ \A i \in 1..Len(out') : out'[i].msg.type # "webrtc_signal"]_vars

\* A change of the quality touches no transport and sends no signal
C30_QualityChangeNegotiatesNothing ==
    [][\A c \in Clients :
          media'[c].connectionQuality # media[c].connectionQuality =>
             /\ pcs' = pcs /\ peerConnections' = peerConnections
             /\ \A i \in 1..Len(out') : out'[i].msg.type # "webrtc_signal"]_vars

\* C37: reconnectAttempts stays between 0 and maxReconnectAttempts, whatever
\* the order of opens, errors, closes, timer expiries and leaveCall
C37_AttemptsWithinMaximum ==
    \A c \in Clients : reconnectAttempts[c] \in 0..maxReconnectAttempts

\* The counter is at the maximum, the last socket has closed and onclose has
\* shown the final error instead of scheduling another attempt
C37_StoppedAtMaximum ==
    \E c \in Clients :
       /\ reconnectAttempts[c] = maxReconnectAttempts
       /\ reconnectTimers[c] = <<>>
       /\ errors[c].connLost >= 1
       /\ \A s \in SockIds : sockets[s].owner = c => sockets[s].state = "CLOSED"

\* this.socket of client c is OPEN
SocketReady(c) == socket[c] # 0 /\ sockets[socket[c]].state = "OPEN"

\* C38: at most one heartbeat timer is active, so that a timer is cleared
\* before the next one is started, and none is active while the socket is
\* not open or after leaveCall
C38_OneHeartbeatTimer ==
    \A c \in Clients :
       /\ hbTimers[c] <= 1
       /\ hbTimers[c] > 0 => SocketReady(c)
       /\ leftAt[c] # "no" => hbTimers[c] = 0

\* At most one timer, and a timer only with an open socket
C38_TimerOnlyWhileOpen ==
    \A c \in Clients :
       /\ hbTimers[c] <= 1
       /\ hbTimers[c] > 0 => SocketReady(c)

\* The sockets of client c that are connecting or open
AliveSockets(c) ==
    {s \in SockIds : sockets[s].owner = c /\ sockets[s].state \in {"CONNECTING", "OPEN"}}

\* C39: at most one socket of a client is connecting or open, at most one
\* backoff timer is pending, and a socket is created only when every socket
\* created before it has closed
C39_OneSocketOneTimer ==
    /\ [](\A c \in Clients :
             /\ Cardinality(AliveSockets(c)) <= 1
             /\ Len(reconnectTimers[c]) <= 1)
    /\ [][\A c \in Clients :
             socket'[c] # socket[c] =>
                \A s \in SockIds : sockets[s].owner = c => sockets[s].state = "CLOSED"]_vars

\* A second socket is connecting after the first one has closed
C39_SecondSocketAfterClose ==
    \E c \in Clients :
       /\ socket[c] = 2 /\ sockets[2].state = "CONNECTING"
       /\ sockets[1].owner = c /\ sockets[1].state = "CLOSED"
       /\ reconnectTimers[c] = <<>>

\* The transports a client has created and not closed
LiveTransports(c) == {t \in PcIds : pcs[t].origin # "free" /\ pcs[t].owner = c /\ ~pcs[t].closed}

\* C32: every transport a client has created and not closed is the registry
\* entry of its remote id, so that a remote id has at most one live transport
C32_NoTransportLeaked ==
    \A c \in Clients : \A t \in LiveTransports(c) : peerConnections[c][pcs[t].peer] = t

\* C33: the keys of the session registry are remote ids of the participant
\* registry: no session exists for an id without a participant record
C33_SessionsHaveParticipants ==
    \A c \in Clients : Sessions(c) \subseteq (Keys(c) \ {c})

\* C34: when a transport that is not the registry entry of its remote id
\* reports 'failed', the transport registered for that id is neither closed
\* nor removed nor replaced, and no transport is created to send a new offer
C34_StaleFailureSparesCurrent ==
    [][\A t \in PcIds :
          LET c == pcs[t].owner
              cur == peerConnections[c][pcs[t].peer]
          IN (FailsTransport(t) /\ cur # t) =>
                /\ peerConnections'[c][pcs[t].peer] = cur
                /\ cur # 0 => pcs'[cur] = pcs[cur]
                /\ nextPc' = nextPc]_vars

\* Client c has registered itself in initializeCall and has not left
Registered(c) == initPc[c] \in {"awaitSocket", "done"} /\ leftAt[c] = "no"

\* C36: from its registration in initializeCall until leaveCall the local
\* participant is in the participant registry with isLocal true, and no
\* session is keyed by the local id
C36_LocalParticipantStays ==
    \A c \in Clients :
       Registered(c) =>
          /\ participants[c][c] # NoParticipant /\ participants[c][c].isLocal
          /\ peerConnections[c][c] = 0

\* No session is ever keyed by the local id
C36_NoSessionForSelf ==
    \A c \in Clients : peerConnections[c][c] = 0

\* The participants_list frames of the hub
ListFrames(c) == {m \in HubFrames(c) : m.type = "participants_list"}

NextRejoin ==
    \/ \E c \in room, s \in SockIds : SocketEnds(c, s)
    \/ \E c \in room, i \in 1..MaxSock : TimerFires(c, i)
    \/ \E c \in room, s \in SockIds : SocketOpen(c, s)
    \/ \E c \in room : \E m \in ListFrames(c) : HubSends(c, m)
    \/ \E c \in room : ReceiveParticipantsList(c)
    \/ \E t \in PcIds : ChainStep(t)

\* A client in a call with one peer, whose socket is lost and re-established
SpecRejoin == InitRetry /\ [][NextRejoin]_vars

\* The ids a participants_list names
Named(list) == {list[i] : i \in 1..Len(list)}

\* C35: when a participants_list has been processed on a socket that a
\* reconnect has opened, the remote ids of the participant registry are the
\* non-local ids of the list, and no session is kept for another id
C35_ListReplacesRegistry ==
    \A c \in Clients :
       (handled.type = "participants_list" /\ socket[c] >= 2 /\ SocketReady(c)) =>
          /\ Keys(c) \ {c} = Named(handled.participants) \ {c}
          /\ Sessions(c) \subseteq Named(handled.participants) \ {c}

\* ------------------------------------------------------- the heartbeat in time
\* The clock of the model stops here
MaxNow == 61000

\* The steps of the clock, in ms, and the moments it shows
Delays == {1000, 29000}
Moments == {0, 1000, 30000, 31000, 60000, 61000}

\* Time passes for client c; a callback that is due runs before more time passes
Elapse(c, d) ==
    /\ Live(c) /\ media[c].now + d <= MaxNow /\ media[c].now + d \in Moments
    /\ hbTimers[c] > 0 => media[c].now + d <= media[c].hbDue
    /\ media' = [media EXCEPT ![c].now = @ + d]
    /\ Emit(<<>>, inbox)
    /\ UNCHANGED <<localStream, remoteStreams, peerConnections, socket, reconnectAttempts,
                   heartbeatInterval, participants, initPc, pcs, nextPc, sockets, nextSock,
                   hbTimers, reconnectTimers, errors, page, room, platform, envCount,
                   leftAt, sinceOpen, early>>

\* The callback of startHeartbeat when its interval of 30000 ms is over: with
\* the socket OPEN a ping and checkConnectionQuality on now - lastHeartbeat
BeatTick(c) ==
    LET m == media[c]
        open == socket[c] # 0 /\ sockets[socket[c]].state = "OPEN"
        checked == IF open
                   THEN adaptVideoQuality(
                           [m EXCEPT !.connectionQuality =
                                          checkConnectionQuality(m.now - m.lastHeartbeat),
                                     !.sinceHeartbeat = m.now - m.lastHeartbeat],
                           localStream[c] = "live", Sessions(c))
                   ELSE m
    IN
    /\ Live(c) /\ hbTimers[c] > 0 /\ m.now = m.hbDue
    /\ Emit(sendMessage(socket[c], sockets, Ping), inbox)
    /\ media' = [media EXCEPT ![c] =
                    [checked EXCEPT !.hbDue = m.now + 30000, !.ticks = @ + 1,
                                    !.pingPending = (@ \/ open)]]
    /\ UNCHANGED <<localStream, remoteStreams, peerConnections, socket, reconnectAttempts,
                   heartbeatInterval, participants, initPc, pcs, nextPc, sockets, nextSock,
                   hbTimers, reconnectTimers, errors, page, room, platform, envCount,
                   leftAt, sinceOpen, early>>

\* onmessage that takes every frame for a pong
AfterAnyMessage(m, type) == [m EXCEPT !.lastHeartbeat = m.now, !.pingPending = FALSE]

\* socket.onmessage after handleWebSocketMessage: a pong sets lastHeartbeat
AfterMessage(m, type) ==
    IF type = "pong" THEN [m EXCEPT !.lastHeartbeat = m.now, !.pingPending = FALSE] ELSE m

\* A pong or a room_stats frame arrives: handleWebSocketMessage has no case
\* for the one and logs the other
ReceiveBeat(c) ==
    /\ Live(c) /\ HasOpenSocket(c) /\ inbox[c] # <<>>
    /\ Head(inbox[c]) \in BeatFrames
    /\ media' = [media EXCEPT ![c] = AfterMessage(@, Head(inbox[c]).type)]
    /\ Emit(<<>>, [inbox EXCEPT ![c] = Tail(@)])
    /\ UNCHANGED <<localStream, remoteStreams, peerConnections, socket, reconnectAttempts,
                   heartbeatInterval, participants, initPc, pcs, nextPc, sockets, nextSock,
                   hbTimers, reconnectTimers, errors, page, room, platform, envCount,
                   leftAt, sinceOpen, early>>

NextBeat ==
    \/ \E c \in room : InitializeCall(c)
    \/ \E c \in room : MediaResolved(c)
    \/ \E c \in room, s \in SockIds : SocketOpen(c, s)
    \/ \E c \in room, s \in SockIds : SocketEnds(c, s)
    \/ \E c \in room, i \in 1..MaxSock : TimerFires(c, i)
    \/ \E c \in room, d \in Delays : Elapse(c, d)
    \/ \E c \in room : BeatTick(c)
    \/ \E c \in room : \E m \in BeatFrames : HubSends(c, m)
    \/ \E c \in room : ReceiveBeat(c)

\* One client, its channel, its clock and its heartbeat
SpecBeat == Init /\ [][NextBeat]_vars

\* The pings among the frames of this step
PingsSent == {i \in 1..Len(out') : out'[i].msg.type = "ping"}

\* The callback of the heartbeat of client c runs in this step
Ticks(c) == media'[c].ticks = media[c].ticks + 1

\* C31: a ping goes out only in a callback of the heartbeat, which runs one
\* period of 30000 ms after the timer was started or ran last, one ping per
\* callback and only on a socket that is OPEN; a callback with the socket
\* not OPEN, and every other step, sends none; lastHeartbeat changes only
\* in the step that takes a pong from the socket
C31_PingPerTickPongSetsTime ==
    [][/\ \A i \in PingsSent :
             /\ sockets[out'[i].sock].state = "OPEN"
             /\ Ticks(sockets[out'[i].sock].owner)
             /\ socket[sockets[out'[i].sock].owner] = out'[i].sock
       /\ \A c \in Clients :
             /\ Ticks(c) =>
                   /\ media[c].now = media[c].hbDue /\ media'[c].hbDue = media[c].now + 30000
                   /\ Cardinality(PingsSent) = IF SocketReady(c) THEN 1 ELSE 0
             /\ ~Ticks(c) => \A i \in PingsSent : sockets[out'[i].sock].owner # c
             /\ media'[c].lastHeartbeat # media[c].lastHeartbeat =>
                   /\ handled'.type = "pong"
                   /\ media'[c].lastHeartbeat = media[c].now]_vars

\* Two callbacks have run and a pong between them has set lastHeartbeat
C31_PongBetweenTicks ==
    \E c \in Clients :
       /\ media[c].ticks = 2 /\ media[c].lastHeartbeat > 0
       /\ out # <<>> /\ out[1].msg.type = "ping"

\* C40: on a channel where no ping has gone without its pong, no callback of
\* the heartbeat classifies the quality as poor or bad
C40_HealthyChannelStaysGood ==
    [][\A c \in Clients :
          (Ticks(c) /\ SocketReady(c) /\ ~media[c].pingPending) =>
             media'[c].connectionQuality \notin {"poor", "bad"}]_vars
====
